---- MODULE Spec2Model ----
(***************************************************************************)
(* QuizGenPro: the text-processing core (lib/extractors: normalizer,       *)
(* sentence splitter, semantic chunker) and the written-answer grader of   *)
(* app/page.tsx (similarity engine, semanticMatchScore, handleQuizFinish). *)
(*                                                                         *)
(* A text is a sequence of one-character strings.  A similarity score is   *)
(* the triple <<n, d, e>>: the double the code holds lies e steps of the   *)
(* double grid away from the double nearest to the real s >= 0 with        *)
(* s^2 = n / d (n / d in lowest terms).  A quotient of two integers is     *)
(* correctly rounded (e = 0); the cosine, a quotient by a product of two   *)
(* rounded square roots, is not.  NaN is the triple <<0, 0, 0>>.           *)
(***************************************************************************)
EXTENDS Integers, Sequences, FiniteSets, TLC

VARIABLES
    text,          \* argument `text` of the function under call
    chunkChars,    \* argument chunkChars of chunkIntoSemanticChunks
    overlapChars,  \* argument overlapChars of chunkIntoSemanticChunks
    sentences,     \* local `sentences` of chunkIntoSemanticChunks
    idx,           \* local `idx`   (sentence cursor)
    charPos,       \* local `charPos` (character cursor)
    chunks,        \* local `chunks`, the value returned
    pc,            \* position of the call: "start", "loop", "done", ...
    once,          \* normalizeTextForExtraction(text), when computed
    twice,         \* normalizeTextForExtraction(once), when computed
    simA,          \* argument a of the similarity functions
    simB,          \* argument b of the similarity functions
    simOut,        \* what the similarity functions returned for (a, b), (b, a)
    view,          \* state `view` of the app
    settings,      \* state `settings` of the app
    quiz,          \* state `quiz` of the app (<<>> for null)
    submission,    \* the submission handed to handleQuizFinish
    attemptResult, \* state `attemptResult` of the app (<<>> for null)
    history,       \* state `history` of the app
    embeddingUrl,  \* whether process.env.EMBEDDING_SERVICE_URL is set
    genPc,         \* position of the generate-question request
    genBody,       \* the JSON body of the generate-question request
    texts,         \* local `texts` of the generate-question handler
    genSentences,  \* local `sentences` of the generate-question handler
    sentPhrases,   \* pickAnswerPhrase(s) of every s of `sentences`, in order
    phrases,       \* local `phrases` of the generate-question handler
    genQuestions,  \* local `questions` of the generate-question handler
    attempts,      \* local `attempts` of the generate-question handler
    sent,          \* local `sent` of the iteration under way
    answer,        \* local `answer` of the iteration under way
    genResponse,   \* the response of the generate-question handler (<<>>: none yet)
    extPc,         \* position of the extract request
    extFiles,      \* the files of the extract request
    extWork,       \* locals `results`, `combined`, `combinedChunks` of the extract handler
    extResponse,   \* the response of the extract handler (<<>>: none yet)
    selectedFiles, \* state `selectedFiles` of the upload page
    useFileCount,  \* state `useFileCount` of the upload page
    uploading,     \* state `uploading` of the upload page
    upPc,          \* position of handleProcess
    baseMetadata,  \* local `baseMetadata` of handleProcess
    extractOutcome, \* how the POST to /api/extract settled (<<>>: not yet)
    uploadCalls,   \* the arguments of the calls of onUploadSuccess so far
    documentMeta,  \* state `documentMeta` of the app (<<>> for null)
    mockPc,        \* position of the call of generateMockQuiz
    mockSettings,  \* argument `settings` of generateMockQuiz
    mockQuestions, \* local `questions` of generateMockQuiz
    mockIdx,       \* local `idx` of generateMockQuiz, modulo the size of the pool
    mockQuiz,      \* the quiz generateMockQuiz returned (<<>>: none yet)
    now,           \* Date.now(), in milliseconds
    currentIndex,  \* state `currentIndex` of the quiz player
    answersState,  \* state `answers` of the quiz player
    answersRef,    \* answersRef.current of the quiz player
    startTime,     \* state `startTime` of the quiz player (0 for null)
    questionStart, \* state `questionStart` of the quiz player (0 for null)
    submittedRef,  \* submittedRef.current of the quiz player
    finishCalls,   \* the calls of onFinish so far: who called, with which answers
    entered,       \* history: what the user entered last for each question
    timeOn,        \* history: the milliseconds each question has been on display
    shownAt,       \* history: when the question on display was put on display
    leftWithNext,  \* history: the questions left with Next or Submit
    nextOnly,      \* history: no Previous and no arrow key so far
    timerResult,   \* what handleQuizFinish makes of answersRef.current, kept for `check`
    mounted,       \* the quiz player is mounted: its handlers and its interval can run
    pickPc,        \* position of a call of pickFiltered
    pickAnswer,    \* `answer`, which pickFiltered closes over
    pickCands,     \* argument `cands` of pickFiltered
    MIN_SIM,       \* `MIN_SIM`, which pickFiltered closes over
    MAX_SIM,       \* `MAX_SIM`, which pickFiltered closes over
    picked         \* what pickFiltered returned

graderVars == <<simA, simB, simOut, view, settings, quiz, submission, attemptResult, history>>

genVars == <<embeddingUrl, genPc, genBody, texts, genSentences, sentPhrases, phrases, genQuestions,
             attempts, sent, answer, genResponse>>

extVars == <<extPc, extFiles, extWork, extResponse>>

\* the state of the route handlers and of the pages other than the grader
upVars == <<selectedFiles, useFileCount, uploading, upPc, baseMetadata, extractOutcome, uploadCalls,
            documentMeta>>

mockVars == <<mockPc, mockSettings, mockQuestions, mockIdx, mockQuiz>>

playerVars == <<now, currentIndex, answersState, answersRef, startTime, questionStart, submittedRef,
                finishCalls, entered, timeOn, shownAt, leftWithNext, nextOnly, timerResult,
                mounted>>

pickVars == <<pickPc, pickAnswer, pickCands, MIN_SIM, MAX_SIM, picked>>

\* the state of the route handlers and of the pages other than the grader
restVars == <<genVars, extVars, upVars, mockVars, playerVars, pickVars>>

vars == <<text, chunkChars, overlapChars, sentences, idx, charPos, chunks, pc, once, twice,
          graderVars, restVars>>

\* nothing of the grader has run
GraderIdle ==
    /\ simA = <<>>
    /\ simB = <<>>
    /\ simOut = <<>>
    /\ view = "upload"
    /\ settings = [passing_score |-> <<70>>]
    /\ quiz = <<>>
    /\ submission = <<>>
    /\ attemptResult = <<>>
    /\ history = <<>>

\* no generate-question request has arrived
GenIdle ==
    /\ embeddingUrl = FALSE
    /\ genPc = "idle"
    /\ genBody = <<>>
    /\ texts = <<>>
    /\ genSentences = <<>>
    /\ sentPhrases = <<>>
    /\ phrases = <<>>
    /\ genQuestions = <<>>
    /\ attempts = 0
    /\ sent = <<>>
    /\ answer = <<>>
    /\ genResponse = <<>>

\* no extract request has arrived
ExtIdle ==
    /\ extPc = "idle"
    /\ extFiles = <<>>
    /\ extWork = <<>>
    /\ extResponse = <<>>

\* the upload page as it is mounted
UpIdle ==
    /\ selectedFiles = <<>>
    /\ useFileCount = 1
    /\ uploading = FALSE
    /\ upPc = "idle"
    /\ baseMetadata = <<>>
    /\ extractOutcome = <<>>
    /\ uploadCalls = <<>>
    /\ documentMeta = <<>>

\* generateMockQuiz has not been called
MockIdle ==
    /\ mockPc = "idle"
    /\ mockSettings = <<>>
    /\ mockQuestions = <<>>
    /\ mockIdx = 0
    /\ mockQuiz = <<>>

\* no quiz player is mounted
PlayerIdle ==
    /\ now = 0
    /\ currentIndex = 0
    /\ answersState = <<>>
    /\ answersRef = <<>>
    /\ startTime = 0
    /\ questionStart = 0
    /\ submittedRef = FALSE
    /\ finishCalls = <<>>
    /\ entered = <<>>
    /\ timeOn = <<>>
    /\ shownAt = 0
    /\ leftWithNext = {}
    /\ nextOnly = TRUE
    /\ timerResult = <<>>
    /\ mounted = FALSE

\* pickFiltered has not been called
PickIdle ==
    /\ pickPc = "idle"
    /\ pickAnswer = <<>>
    /\ pickCands = <<>>
    /\ MIN_SIM = <<>>
    /\ MAX_SIM = <<>>
    /\ picked = <<>>

RestIdle == GenIdle /\ ExtIdle /\ UpIdle /\ MockIdle /\ PlayerIdle /\ PickIdle

-----------------------------------------------------------------------------
(* Bounds of the model *)

MaxPieces == 5      \* pieces a chunker input is assembled from
MaxNormLen == 5     \* characters of a normalizer input
MaxWords == 3       \* words of an argument of the similarity functions
MaxQuestions == 2   \* questions of a quiz

-----------------------------------------------------------------------------
(* Characters and generic string helpers *)

LF == "\n"
CR == "\r"
SP == " "

\* the value null; a text is a sequence of characters, so null is no text
Null == <<"null">>

\* t || '' for a text or null
OrEmpty(t) == IF t = Null THEN <<>> ELSE t

\* the characters the JS regex class \s and String.prototype.trim treat as
\* white space, among the characters the model uses
IsSpace(c) == c \in {SP, LF, CR, "\t", "\f"}

\* the characters of the class [.!?]
IsTerminal(c) == c \in {".", "!", "?"}

Max(x, y) == IF x >= y THEN x ELSE y

Min(x, y) == IF x <= y THEN x ELSE y

\* s.slice(i - 1, j)  (1-based, inclusive; empty when j < i)
Slice(s, i, j) == IF j < i THEN <<>> ELSE SubSeq(s, i, j)

RECURSIVE TrimStart(_)
TrimStart(s) ==
    IF s = <<>> THEN <<>>
    ELSE IF IsSpace(Head(s)) THEN TrimStart(Tail(s)) ELSE s

RECURSIVE TrimEnd(_)
TrimEnd(s) ==
    IF s = <<>> THEN <<>>
    ELSE IF IsSpace(s[Len(s)]) THEN TrimEnd(SubSeq(s, 1, Len(s) - 1)) ELSE s

\* String.prototype.trim
Trim(s) == TrimEnd(TrimStart(s))

\* parts.join(sep)
RECURSIVE Join(_, _)
Join(parts, sep) ==
    IF parts = <<>> THEN <<>>
    ELSE IF Len(parts) = 1 THEN parts[1]
    ELSE parts[1] \o sep \o Join(Tail(parts), sep)

\* all sequences over S of length at most n
RECURSIVE SeqsUpTo(_, _)
SeqsUpTo(S, n) ==
    IF n = 0 THEN {<<>>}
    ELSE LET shorter == SeqsUpTo(S, n - 1)
         IN  shorter \cup {Append(s, x) : s \in {t \in shorter : Len(t) = n - 1}, x \in S}

-----------------------------------------------------------------------------
(* normalizeTextForExtraction, lib/extractors *)

\* the positions of s, in order
Positions(s) == [i \in 1..Len(s) |-> i]

\* the characters of s at the positions idxs: what a replace(..., '') keeps
Pick(s, idxs) == [k \in 1..Len(idxs) |-> s[idxs[k]]]

\* t.replace(/\r\n/g, '\n')
ReplaceCRLF(s) ==
    Pick(s, SelectSeq(Positions(s),
                      LAMBDA i : ~(s[i] = CR /\ i < Len(s) /\ s[i + 1] = LF)))

\* t.replace(/\r/g, '\n')
ReplaceCR(s) == [i \in 1..Len(s) |-> IF s[i] = CR THEN LF ELSE s[i]]

\* t.replace(/-\n\s*/g, '')
\* a match starts at every "-" followed by a line feed and extends over the
\* white space after it
RemoveHyphenation(s) ==
    Pick(s, SelectSeq(Positions(s),
                      LAMBDA i : ~\E h \in 1..i :
                                     /\ s[h] = "-"
                                     /\ h < Len(s)
                                     /\ s[h + 1] = LF
                                     /\ \A k \in (h + 2)..i : IsSpace(s[k])))

\* t.replace(/\n{2,}/g, '\n\n')
\* of a run of line feeds the first two are kept
CollapseParagraphs(s) ==
    Pick(s, SelectSeq(Positions(s),
                      LAMBDA i : ~(i > 2 /\ s[i] = LF /\ s[i - 1] = LF /\ s[i - 2] = LF)))

\* t.replace(/\n/g, ' ')
ReplaceLF(s) == [i \in 1..Len(s) |-> IF s[i] = LF THEN SP ELSE s[i]]

\* a plausible slip: collapse pairs of white space only (/\s\s/g)
RECURSIVE CollapsePairs(_)
CollapsePairs(s) ==
    IF s = <<>> THEN <<>>
    ELSE IF Len(s) >= 2 /\ IsSpace(s[1]) /\ IsSpace(s[2])
         THEN <<SP>> \o CollapsePairs(SubSeq(s, 3, Len(s)))
         ELSE <<s[1]>> \o CollapsePairs(Tail(s))

\* t.replace(/\s+/g, ' ')
\* of a run of white space the first character is kept, as a space
CollapseSpaces(s) ==
    Pick([i \in 1..Len(s) |-> IF IsSpace(s[i]) THEN SP ELSE s[i]],
         SelectSeq(Positions(s), LAMBDA i : ~(i > 1 /\ IsSpace(s[i]) /\ IsSpace(s[i - 1]))))

normalizeTextForExtraction(t) ==
    IF t = Null \/ t = <<>> THEN <<>>
    ELSE LET t1 == ReplaceCR(ReplaceCRLF(t))
             t2 == RemoveHyphenation(t1)
             t3 == ReplaceLF(CollapseParagraphs(t2))
         IN  Trim(CollapseSpaces(t3))

-----------------------------------------------------------------------------
(* splitIntoSentences, lib/extractors *)

\* length of the maximal run of characters of [^.!?] at the head of s
RECURSIVE RunNonTerminal(_)
RunNonTerminal(s) ==
    IF s # <<>> /\ ~IsTerminal(Head(s)) THEN 1 + RunNonTerminal(Tail(s)) ELSE 0

\* length of the maximal run of characters of [.!?] at the head of s
RECURSIVE RunTerminal(_)
RunTerminal(s) ==
    IF s # <<>> /\ IsTerminal(Head(s)) THEN 1 + RunTerminal(Tail(s)) ELSE 0

\* Length of the match of /[^.!?]+[.!?]+(?:\s|$)|[^.!?]+$/ anchored at the
\* head of s, 0 when there is none.  The first run is maximal in every
\* match: a shorter one would have to be followed by a terminal character.
MatchAt(s) ==
    LET a == RunNonTerminal(s)
        b == RunTerminal(SubSeq(s, a + 1, Len(s)))
    IN  IF a = 0 THEN 0
        ELSE IF b = 0 THEN (IF a = Len(s) THEN a ELSE 0)
        ELSE IF a + b = Len(s) THEN a + b
        ELSE IF IsSpace(s[a + b + 1]) THEN a + b + 1
        ELSE 0

\* text.match(re) with the g flag: the successive matches, left to right
RECURSIVE Matches(_)
Matches(s) ==
    IF s = <<>> THEN <<>>
    ELSE LET m == MatchAt(s)
         IN  IF m = 0 THEN Matches(Tail(s))
             ELSE <<SubSeq(s, 1, m)>> \o Matches(SubSeq(s, m + 1, Len(s)))

splitIntoSentences(t) ==
    IF t = Null \/ t = <<>> THEN <<>>
    ELSE LET matches == Matches(t)
             trimmed == [i \in 1..Len(matches) |-> Trim(matches[i])]
         IN  SelectSeq(trimmed, LAMBDA m : m # <<>>)

-----------------------------------------------------------------------------
(* chunkIntoSemanticChunks, lib/extractors *)

Digit(n) == CASE n = 0 -> "0" [] n = 1 -> "1" [] n = 2 -> "2" [] n = 3 -> "3"
              [] n = 4 -> "4" [] n = 5 -> "5" [] n = 6 -> "6" [] n = 7 -> "7"
              [] n = 8 -> "8" [] n = 9 -> "9"

\* the decimal digits of a natural number, as a template literal prints it
RECURSIVE Digits(_)
Digits(n) == IF n < 10 THEN <<Digit(n)>> ELSE Digits(n \div 10) \o <<Digit(n % 10)>>

\* `${n}` for an integer n
NumberToString(n) == IF n < 0 THEN <<"-">> \o Digits(-n) ELSE Digits(n)

\* a slip: the id is built from the two numbers without the separator
ChunkIdNoDash(startChar, endChar) == NumberToString(startChar) \o NumberToString(endChar)

\* `${startChar}-${endChar}`
ChunkId(startChar, endChar) == NumberToString(startChar) \o <<"-">> \o NumberToString(endChar)

\* a slip: && for ||, so that a chunk never takes a second sentence
KeepAddingAnd(len, nparts, cc) == len < cc /\ nparts = 0

\* the condition of the inner loop: len < chunkChars || parts.length === 0
KeepAdding(len, nparts, cc) == len < cc \/ nparts = 0

\* The inner loop that fills `parts`: from cursor i (0-based) with `len`
\* accumulated and nparts sentences taken, the final <<idx, len>>.
RECURSIVE FillParts(_, _, _, _, _)
FillParts(sents, i, len, nparts, cc) ==
    IF i < Len(sents) /\ KeepAdding(len, nparts, cc)
    THEN FillParts(sents, i + 1, len + Len(sents[i + 1]) + 1, nparts + 1, cc)
    ELSE <<i, len>>

\* The backtracking loop: the final j, from j (0-based) with `back`
\* characters accumulated.
RECURSIVE Backtrack(_, _, _, _, _)
Backtrack(sents, j, back, startIdx, oc) ==
    IF j > startIdx /\ back < oc
    THEN Backtrack(sents, j - 1, back + Len(sents[j + 1]) + 1, startIdx, oc)
    ELSE j

\* a slip: the cursor restarts on sentence j, which the walk stopped on
NewIdxAtJ(startIdx, j) == Max(startIdx, j)

\* a slip: the cursor restarts one sentence too far
NewIdxSkip(startIdx, j) == Max(startIdx, j + 2)

\* const newIdx = Math.max(startIdx, j + 1)
NewIdx(startIdx, j) == Max(startIdx, j + 1)

\* a slip: the accumulated `len`, which counts a separator per sentence
EndCharFromLen(startChar, chunkText, len) == startChar + len

\* const endChar = startChar + chunkText.length
EndChar(startChar, chunkText, len) == startChar + Len(chunkText)

\* charPos = chunks[chunks.length - 1].startChar + Math.max(0, chunkText.length - overlapChars)
OverlapCharPos(startChar, chunkText, oc) == startChar + Max(0, Len(chunkText) - oc)

\* the pieces the inputs of the chunker are assembled from: a fragment
\* without terminal punctuation, a short sentence, a hyphenated word across a
\* line break, two words across a CRLF line break
Pieces == { <<"a">>,
            <<"a", ".">>,
            <<"a", "-", LF, "b", ".">>,
            <<"a", "b", CR, LF, "c", "d", "!">> }

\* the number of pieces a text was assembled from
PieceCount(t) == IF t = <<>> THEN 0 ELSE 1 + Len(SelectSeq(t, LAMBDA c : c = SP))

\* budgets and overlaps, the pathological ones (chunkChars <= 0,
\* overlapChars >= chunkChars, a negative overlap) included
ChunkCharsSet == {0, 4, 7}

OverlapCharsSet == {-1, 0, 1, 3, 8}

InitChunk ==
    /\ text = <<>>
    /\ chunkChars = 0
    /\ overlapChars = 0
    /\ sentences = <<>>
    /\ idx = 0
    /\ charPos = 0
    /\ chunks = <<>>
    /\ pc = "idle"
    /\ once = <<>>
    /\ twice = <<>>
    /\ GraderIdle
    /\ RestIdle

\* the document text grows by one piece before the call
ChunkInput ==
    /\ pc = "idle"
    /\ PieceCount(text) < MaxPieces
    /\ \E p \in Pieces : text' = Join(SelectSeq(<<text, p>>, LAMBDA x : x # <<>>), <<SP>>)
    /\ UNCHANGED <<chunkChars, overlapChars, sentences, idx, charPos, chunks, pc, once, twice,
                 graderVars, restVars>>

\* a caller invokes chunkIntoSemanticChunks(text, cc, oc)
ChunkCall ==
    /\ pc = "idle"
    /\ \E cc \in ChunkCharsSet, oc \in OverlapCharsSet :
          /\ chunkChars' = cc
          /\ overlapChars' = oc
    /\ pc' = "start"
    /\ UNCHANGED <<text, sentences, idx, charPos, chunks, once, twice,
                 graderVars, restVars>>

\* lines 90-95: normalize, return [] on empty text, split, initialise cursors
ChunkStart ==
    /\ pc = "start"
    /\ LET normalized == normalizeTextForExtraction(OrEmpty(text))
       IN  IF normalized = <<>>
           THEN /\ pc' = "done"
                /\ sentences' = <<>>
           ELSE /\ pc' = "loop"
                /\ sentences' = splitIntoSentences(normalized)
    /\ idx' = 0
    /\ charPos' = 0
    /\ chunks' = <<>>
    /\ UNCHANGED <<text, chunkChars, overlapChars, once, twice,
                 graderVars, restVars>>

\* lines 96-127: one iteration of the outer while loop.  The locals are
\* bound with \E over a singleton, each computed once.
ChunkStep ==
    /\ pc = "loop"
    /\ idx < Len(sentences)
    /\ \E startIdx \in {idx}, startChar \in {charPos} :
       \E filled \in {FillParts(sentences, startIdx, 0, 0, chunkChars)} :
       \E idx1 \in {filled[1]}, len \in {filled[2]} :
       \E chunkText \in {Join(Slice(sentences, startIdx + 1, idx1), <<SP>>)} :
       \E endChar \in {EndChar(startChar, chunkText, len)} :
          /\ chunks' = Append(chunks, [ id |-> ChunkId(startChar, endChar),
                                        text |-> chunkText,
                                        startSentence |-> startIdx,
                                        endSentence |-> idx1 - 1,
                                        startChar |-> startChar,
                                        endChar |-> endChar ])
          /\ IF idx1 < Len(sentences)
             THEN \E j \in {Backtrack(sentences, idx1 - 1, 0, startIdx, overlapChars)} :
                    /\ charPos' = OverlapCharPos(startChar, chunkText, overlapChars)
                    /\ idx' = NewIdx(startIdx, j)
             ELSE /\ idx' = Len(sentences)
                  /\ charPos' = endChar
    /\ UNCHANGED <<text, chunkChars, overlapChars, sentences, pc, once, twice,
                 graderVars, restVars>>

\* line 128: the loop condition fails, the chunks are returned
ChunkReturn ==
    /\ pc = "loop"
    /\ idx >= Len(sentences)
    /\ pc' = "done"
    /\ UNCHANGED <<text, chunkChars, overlapChars, sentences, idx, charPos, chunks, once, twice,
                 graderVars, restVars>>

NextChunk == ChunkInput \/ ChunkCall \/ ChunkStart \/ ChunkStep \/ ChunkReturn

SpecChunk == InitChunk /\ [][NextChunk]_vars

\* the loop is sequential code: it runs as long as it can
SpecChunkFair == SpecChunk /\ WF_vars(ChunkStep) /\ WF_vars(ChunkReturn)

-----------------------------------------------------------------------------
(* Properties of the chunker *)

\* the sentences of the split normalized text, recomputed from the argument
Sents == splitIntoSentences(normalizeTextForExtraction(text))

\* totalLength: the length of the normalized text
TotalLength == Len(normalizeTextForExtraction(text))

CeilDiv(a, b) == (a + b - 1) \div b

Covered(i) == \E k \in 1..Len(chunks) :
                 chunks[k].startSentence <= i /\ i <= chunks[k].endSentence

\* C1: with overlapChars < chunkChars no chunk starts beyond the sentence
\* after the previous chunk's last one, and the chunks returned start at
\* sentence 0, end at sentence n-1 and cover every sentence index 0..n-1.
ChunkCoverage ==
    overlapChars < chunkChars =>
        /\ \A k \in 1..(Len(chunks) - 1) :
              chunks[k + 1].startSentence <= chunks[k].endSentence + 1
        /\ pc = "done" =>
              LET n == Len(Sents)
              IN  n > 0 =>
                    /\ chunks # <<>>
                    /\ chunks[1].startSentence = 0
                    /\ chunks[Len(chunks)].endSentence = n - 1
                    /\ \A i \in 0..(n - 1) : Covered(i)

\* a call that returned four chunks or more, two neighbours sharing a sentence
ChunkCoverageWitness ==
    /\ pc = "done"
    /\ overlapChars < chunkChars
    /\ Len(chunks) >= 4
    /\ \E k \in 1..(Len(chunks) - 1) :
          chunks[k + 1].startSentence <= chunks[k].endSentence

\* one step of the loop: the chunk it appends starts after the one before
\* it, the cursor restarts beyond that chunk's first sentence, and there are
\* never more chunks than sentences
ChunkProgress ==
    Len(chunks') > Len(chunks) =>
        LET c == chunks'[Len(chunks')]
        IN  /\ idx' > c.startSentence
            /\ chunks # <<>> => c.startSentence > chunks[Len(chunks)].startSentence
            /\ Len(chunks') <= Len(sentences)

\* C2: every call terminates, the pathological configurations included:
\* startSentence strictly increases from chunk to chunk, the cursor restarts
\* strictly beyond each chunk's startSentence, at most n chunks are produced
\* and the call eventually returns.
ChunkTerminates == [][ChunkProgress]_vars /\ ((pc = "loop") ~> (pc = "done"))

\* a returned call whose overlap is not below the budget and whose chunks
\* shared sentences
ChunkTerminatesWitness ==
    /\ pc = "done"
    /\ chunkChars > 0
    /\ overlapChars >= chunkChars
    /\ Len(chunks) >= 4
    /\ \E k \in 1..(Len(chunks) - 1) :
          chunks[k + 1].startSentence <= chunks[k].endSentence

\* C3 (as claimed): startChar strictly increases along the chunks of a call.
\* The claim is for every text and every chunkChars / overlapChars; it is
\* stated here on the configurations it singles out, overlapChars <
\* chunkChars, where it fails already.
StartCharIncreasing ==
    overlapChars < chunkChars =>
    \A k \in 1..(Len(chunks) - 1) : chunks[k].startChar < chunks[k + 1].startChar

\* the value of a digit character, 10 for any other character
DigitValue(c) == IF \E d \in 0..9 : Digit(d) = c
                 THEN CHOOSE d \in 0..9 : Digit(d) = c
                 ELSE 10

\* the chunks whose id reads "<m>-<n>" with decimal numbers m and n
RECURSIVE ParseNat(_, _)
ParseNat(s, acc) ==
    IF s = <<>> THEN acc ELSE ParseNat(Tail(s), 10 * acc + DigitValue(Head(s)))

IdReads(id, m, n) ==
    \E d \in 2..(Len(id) - 1) :
        /\ id[d] = "-"
        /\ \A i \in (1..Len(id)) \ {d} : DigitValue(id[i]) < 10
        /\ ParseNat(SubSeq(id, 1, d - 1), 0) = m
        /\ ParseNat(SubSeq(id, d + 1, Len(id)), 0) = n
        /\ (d > 2 => id[1] # "0")
        /\ (d < Len(id) - 1 => id[d + 1] # "0")

\* C4: every chunk has startSentence <= endSentence, startChar < endChar,
\* endChar - startChar = length(text), its text is the sentences
\* startSentence..endSentence joined by one space, and its id is
\* "<startChar>-<endChar>".
ChunkWellFormed ==
    chunks # <<>> =>
        LET sents == Sents
        IN  \A k \in 1..Len(chunks) :
              LET c == chunks[k]
              IN  /\ c.startSentence <= c.endSentence
                  /\ c.startChar < c.endChar
                  /\ c.endChar - c.startChar = Len(c.text)
                  /\ c.startSentence >= 0 /\ c.endSentence < Len(sents)
                  /\ c.text = Join(SubSeq(sents, c.startSentence + 1, c.endSentence + 1), <<SP>>)
                  /\ IdReads(c.id, c.startChar, c.endChar)

\* a chunk of two sentences or more that starts at character 10 or later
ChunkWellFormedWitness ==
    /\ pc = "done"
    /\ \E k \in 1..Len(chunks) :
          /\ chunks[k].endSentence > chunks[k].startSentence
          /\ chunks[k].startChar >= 10

\* C5 (as claimed): with 0 <= overlapChars < chunkChars the number of chunks
\* is at most ceil(totalLength / (chunkChars - overlapChars)) + 1.
ChunkCountBound ==
    (pc = "done" /\ 0 <= overlapChars /\ overlapChars < chunkChars) =>
        Len(chunks) <= CeilDiv(TotalLength, chunkChars - overlapChars) + 1

\* C5 (amended): with 0 <= overlapChars < chunkChars the number of chunks is
\* at most the number n of sentences, and with overlapChars = 0 it is at most
\* ceil(totalLength / chunkChars) + 1.
ChunkCountAmended ==
    (0 <= overlapChars /\ overlapChars < chunkChars /\ chunks # <<>>) =>
        /\ Len(chunks) <= Len(Sents)
        /\ overlapChars = 0 => Len(chunks) <= CeilDiv(TotalLength, chunkChars) + 1

\* a call without overlap that returned ceil(totalLength / chunkChars) >= 3
\* chunks, and as many chunks as sentences
ChunkCountWitness ==
    /\ pc = "done"
    /\ overlapChars = 0
    /\ chunkChars > 0
    /\ Len(chunks) >= 3
    /\ Len(chunks) = Len(Sents)
    /\ Len(chunks) = CeilDiv(TotalLength, chunkChars)

-----------------------------------------------------------------------------
(* normalizeTextForExtraction applied twice *)

NormAlphabet == {"a", "-", CR, LF, SP}

NormTexts == SeqsUpTo(NormAlphabet, MaxNormLen)

InitNorm ==
    /\ text \in NormTexts
    /\ pc = "raw"
    /\ once = <<>>
    /\ twice = <<>>
    /\ chunkChars = 0
    /\ overlapChars = 0
    /\ sentences = <<>>
    /\ idx = 0
    /\ charPos = 0
    /\ chunks = <<>>
    /\ GraderIdle
    /\ RestIdle

\* once = normalizeTextForExtraction(text)
NormalizeOnce ==
    /\ pc = "raw"
    /\ once' = normalizeTextForExtraction(text)
    /\ pc' = "once"
    /\ UNCHANGED <<text, twice, chunkChars, overlapChars, sentences, idx, charPos, chunks,
                 graderVars, restVars>>

\* twice = normalizeTextForExtraction(once)
NormalizeTwice ==
    /\ pc = "once"
    /\ twice' = normalizeTextForExtraction(once)
    /\ pc' = "twice"
    /\ UNCHANGED <<text, once, chunkChars, overlapChars, sentences, idx, charPos, chunks,
                 graderVars, restVars>>

NextNorm == NormalizeOnce \/ NormalizeTwice

SpecNorm == InitNorm /\ [][NextNorm]_vars

\* C6: normalizeTextForExtraction is idempotent: normalizing its own output
\* gives that output back.
NormalizeIdempotent == pc = "twice" => twice = once

\* a text with a hyphen before a CR line break and a run of white space,
\* which the first pass changed into a non-empty text
NormalizeIdempotentWitness ==
    /\ pc = "twice"
    /\ once # <<>>
    /\ once # text
    /\ \E i \in 1..(Len(text) - 1) : text[i] = "-" /\ text[i + 1] = CR
    /\ \E i \in 1..(Len(text) - 1) : IsSpace(text[i]) /\ IsSpace(text[i + 1])

\* C22: a paragraph break (two line breaks between two letters) leaves
\* a mark in the output: the output differs from that of the text with a
\* single line break in its place; and the output has no carriage return
\* and no two white-space characters in a row
ParagraphsKept ==
    pc # "raw" =>
        /\ \A i \in 2..(Len(text) - 2) :
              (text[i - 1] = "a" /\ text[i] = LF /\ text[i + 1] = LF /\ text[i + 2] = "a")
                  => once # normalizeTextForExtraction(
                                 SubSeq(text, 1, i) \o SubSeq(text, i + 2, Len(text)))
        /\ \A i \in 1..Len(once) : once[i] # CR
        /\ \A i \in 1..(Len(once) - 1) : ~(IsSpace(once[i]) /\ IsSpace(once[i + 1]))

-----------------------------------------------------------------------------
(* Similarity scores: the doubles the similarity functions compute *)

RECURSIVE GCD(_, _)
GCD(m, n) == IF n = 0 THEN m ELSE GCD(n, m % n)

\* the number 0
Zero == <<0, 1, 0>>

\* the number 1
One == <<1, 1, 0>>

NaN == <<0, 0, 0>>

IsNaN(x) == x[2] = 0

\* i / u for integers i >= 0, u > 0: one correctly rounded division
Ratio(i, u) ==
    LET g == GCD(i, u)
    IN  <<(i \div g) * (i \div g), (u \div g) * (u \div g), 0>>

\* x < y on doubles (false when either is NaN)
ScoreLess(x, y) ==
    /\ ~IsNaN(x)
    /\ ~IsNaN(y)
    /\ \/ x[1] * y[2] < y[1] * x[2]
       \/ x[1] * y[2] = y[1] * x[2] /\ x[3] < y[3]

\* x >= y on doubles (false when either is NaN)
ScoreGeq(x, y) == ~IsNaN(x) /\ ~IsNaN(y) /\ ~ScoreLess(x, y)

\* Math.max(x, y)
MathMax(x, y) ==
    IF IsNaN(x) \/ IsNaN(y) THEN NaN
    ELSE IF ScoreLess(x, y) THEN y ELSE x

\* Math.max(...xs) for a non-empty array xs
RECURSIVE MathMaxAll(_)
MathMaxAll(xs) ==
    IF Len(xs) = 1 THEN xs[1] ELSE MathMax(xs[1], MathMaxAll(Tail(xs)))

\* x || 0 : NaN and 0 are falsy
OrZero(x) == IF IsNaN(x) \/ x[1] = 0 THEN Zero ELSE x

\* dot / (Math.sqrt(na) * Math.sqrt(nb)) is computed with three roundings
\* (two square roots and their product) before the division.  Each entry
\* <<dot, na, nb, e>> (na <= nb) gives the steps e # 0 by which the double
\* computed lies off the double nearest to dot / sqrt(na * nb), for every
\* pair of count vectors of at most 4 tokens over at most 4 words; the
\* triples of such vectors that are not listed have e = 0.
CosUlpTable ==
    {
      <<1, 1, 2, -1>>, <<1, 1, 3, 1>>, <<1, 1, 6, 1>>, <<1, 2, 2, -2>>, <<1, 2, 3, -1>>,
      <<1, 2, 6, 1>>, <<1, 3, 5, -1>>, <<1, 5, 5, -2>>, <<1, 5, 10, -1>>, <<1, 10, 10, -2>>,
      <<2, 1, 6, 1>>, <<2, 1, 8, -1>>, <<2, 2, 2, -2>>, <<2, 2, 3, -1>>, <<2, 2, 4, -1>>,
      <<2, 2, 6, 1>>, <<2, 2, 8, -2>>, <<2, 3, 3, 1>>, <<2, 3, 4, 1>>, <<2, 3, 5, -1>>,
      <<2, 3, 6, 1>>, <<2, 3, 8, -1>>, <<2, 4, 6, 1>>, <<2, 5, 5, -2>>, <<2, 5, 10, -1>>,
      <<2, 6, 6, 1>>, <<2, 6, 8, 1>>, <<3, 2, 6, 1>>, <<3, 2, 9, -1>>, <<3, 3, 3, 1>>,
      <<3, 3, 4, 1>>, <<3, 5, 10, -1>>, <<3, 6, 6, 1>>, <<3, 6, 9, 1>>, <<3, 10, 10, -1>>,
      <<4, 2, 8, -2>>, <<4, 2, 16, -1>>, <<4, 3, 6, 1>>, <<4, 3, 8, -1>>, <<4, 3, 16, 1>>,
      <<4, 4, 6, 1>>, <<4, 4, 8, -1>>, <<4, 5, 5, -2>>, <<4, 6, 6, 1>>, <<4, 6, 8, 1>>,
      <<4, 6, 16, 1>>, <<4, 8, 8, -2>>, <<5, 5, 5, -2>>, <<5, 5, 10, -1>>, <<5, 6, 6, 1>>,
      <<5, 6, 10, 1>>, <<6, 5, 10, -1>>, <<6, 6, 6, 1>>, <<6, 6, 8, 1>>, <<6, 6, 9, 1>>,
      <<6, 8, 9, -1>>, <<6, 10, 10, -1>>, <<7, 5, 10, -2>>, <<7, 6, 10, 1>>, <<8, 6, 16, 1>>,
      <<8, 8, 8, -2>>, <<8, 8, 16, -1>>, <<9, 10, 10, -2>>, <<10, 10, 10, -2>>
    }

\* the steps by which the computed cosine lies off the nearest double
CosUlps(dot, na, nb) ==
    LET lo == Min(na, nb)
        hi == Max(na, nb)
        hit == {t \in CosUlpTable : t[1] = dot /\ t[2] = lo /\ t[3] = hi}
    IN  IF hit = {} THEN 0 ELSE (CHOOSE t \in hit : TRUE)[4]

\* the double dot / (Math.sqrt(na) * Math.sqrt(nb)), for dot, na, nb > 0
CosQuotient(dot, na, nb) ==
    LET g == GCD(dot * dot, na * nb)
    IN  <<(dot * dot) \div g, (na * nb) \div g, CosUlps(dot, na, nb)>>

-----------------------------------------------------------------------------
(* The similarity engine of app/page.tsx (repeated in the route handler) *)

UpperCase == <<"A", "B", "C", "D", "E", "F", "G", "H", "I", "J", "K", "L", "M",
               "N", "O", "P", "Q", "R", "S", "T", "U", "V", "W", "X", "Y", "Z">>

LowerCase == <<"a", "b", "c", "d", "e", "f", "g", "h", "i", "j", "k", "l", "m",
               "n", "o", "p", "q", "r", "s", "t", "u", "v", "w", "x", "y", "z">>

\* s.toLowerCase()
toLowerCase(s) ==
    [i \in 1..Len(s) |->
        IF \E k \in 1..26 : UpperCase[k] = s[i]
        THEN LowerCase[CHOOSE k \in 1..26 : UpperCase[k] = s[i]]
        ELSE s[i]]

\* the characters of the class [a-z0-9\s]
IsWordOrSpace(c) ==
    \/ \E k \in 1..26 : LowerCase[k] = c
    \/ \E d \in 0..9 : Digit(d) = c
    \/ IsSpace(c)

\* s.replace(/[^a-z0-9\s]/g, ' ')
ReplaceNonWord(s) == [i \in 1..Len(s) |-> IF IsWordOrSpace(s[i]) THEN s[i] ELSE SP]

\* a slip: the letters keep their case
normalizeTextKeepCase(s) == Trim(CollapseSpaces(ReplaceNonWord(s)))

normalizeText(s) == Trim(CollapseSpaces(ReplaceNonWord(toLowerCase(OrEmpty(s)))))

\* s.split(' ')
RECURSIVE SplitAtSpace(_, _)
SplitAtSpace(s, cur) ==
    IF s = <<>> THEN <<cur>>
    ELSE IF Head(s) = SP THEN <<cur>> \o SplitAtSpace(Tail(s), <<>>)
    ELSE SplitAtSpace(Tail(s), Append(cur, Head(s)))

\* arr.filter(Boolean) on an array of strings
FilterNonEmpty(arr) == SelectSeq(arr, LAMBDA w : w # <<>>)

\* the set `stop` of tokens
stop ==
    { <<"t", "h", "e">>, <<"i", "s">>, <<"i", "n">>,
      <<"a", "n", "d">>, <<"o", "f">>, <<"a">>,
      <<"t", "o">>, <<"f", "o", "r">>, <<"w", "i", "t", "h">>,
      <<"o", "n">>, <<"b", "y">>, <<"a", "n">>,
      <<"b", "e">>, <<"t", "h", "a", "t">>, <<"t", "h", "i", "s">>,
      <<"i", "t">>, <<"a", "s">>, <<"a", "r", "e">> }

\* a slip: the stopwords are kept
tokensKeepStopwords(s) == FilterNonEmpty(SplitAtSpace(normalizeText(s), <<>>))

tokens(s) ==
    SelectSeq(FilterNonEmpty(SplitAtSpace(normalizeText(s), <<>>)), LAMBDA t : t \notin stop)

\* new Set(arr)
SetOf(arr) == {arr[i] : i \in DOMAIN arr}

\* a slip: the divisor is the size of the first set, not of the union
jaccardOfFirst(a, b) ==
    LET A == SetOf(a)
        B == SetOf(b)
    IN  IF A \cup B = {} THEN Zero
        ELSE IF A = {} THEN NaN
        ELSE Ratio(Cardinality(A \cap B), Cardinality(A))

jaccard(a, b) ==
    LET A == SetOf(a)
        B == SetOf(b)
        inter == Cardinality(A \cap B)
        uni == Cardinality(A \cup B)
    IN  IF uni = 0 THEN Zero ELSE Ratio(inter, uni)

\* the only key of tokens' alphabet that an object literal {} inherits:
\* fa[w] is truthy for it before any assignment
InheritedKey == <<"c", "o", "n", "s", "t", "r", "u", "c", "t", "o", "r">>

\* fa[w] || 0 after a.forEach(w => fa[w] = (fa[w] || 0) + 1), for w not inherited
Freq(a, w) == Cardinality({i \in DOMAIN a : a[i] = w})

\* the sum over the keys ws of (fa[w] || 0) * (fb[w] || 0)
RECURSIVE SumProducts(_, _, _)
SumProducts(ws, a, b) ==
    IF ws = {} THEN 0
    ELSE LET w == CHOOSE x \in ws : TRUE
         IN  Freq(a, w) * Freq(b, w) + SumProducts(ws \ {w}, a, b)

cosineSim(a, b) ==
    LET all == SetOf(a) \cup SetOf(b)
        dot == SumProducts(all, a, b)
        na == SumProducts(all, a, a)
        nb == SumProducts(all, b, b)
    IN  IF InheritedKey \in all THEN NaN
        ELSE IF na = 0 \/ nb = 0 THEN Zero
        ELSE CASE Len(a) <= 4 /\ Len(b) <= 4 /\ Cardinality(all) <= 4 ->
                  CosQuotient(dot, na, nb)

semanticSimilarity(a, b) ==
    LET ta == tokens(OrEmpty(a))
        tb == tokens(OrEmpty(b))
    IN  IF Len(ta) = 0 \/ Len(tb) = 0 THEN Zero
        ELSE MathMax(jaccard(ta, tb), cosineSim(ta, tb))

\* the helper `bigrams` of semanticMatchScore
bigrams(s) ==
    LET parts == FilterNonEmpty(SplitAtSpace(normalizeText(s), <<>>))
    IN  [i \in 1..(Len(parts) - 1) |-> parts[i] \o <<SP>> \o parts[i + 1]]

\* the helper `bigramJaccard` of semanticMatchScore
bigramJaccard(a, b) ==
    LET A == SetOf(a)
        B == SetOf(b)
        inter == Cardinality(A \cap B)
        uni == Cardinality(A \cup B)
    IN  IF uni = 0 THEN Zero ELSE Ratio(inter, uni)

\* a slip: a blank response gets the full score
semanticMatchScoreBlankOne(resp, expected) ==
    IF Trim(resp) = <<>> THEN One
    ELSE IF Len(expected) = 0 THEN Zero
    ELSE MathMaxAll([i \in 1..Len(expected) |->
            MathMax(OrZero(semanticSimilarity(resp, expected[i])),
                    OrZero(bigramJaccard(bigrams(resp), bigrams(expected[i]))))])

semanticMatchScore(resp, expected) ==
    IF Trim(resp) = <<>> THEN Zero
    ELSE IF Len(expected) = 0 THEN Zero
    ELSE LET tokenScores == [i \in 1..Len(expected) |-> semanticSimilarity(resp, expected[i])]
             bigramScores == [i \in 1..Len(expected) |->
                                 bigramJaccard(bigrams(resp), bigrams(expected[i]))]
             combined == [i \in 1..Len(expected) |->
                             MathMax(OrZero(tokenScores[i]), OrZero(bigramScores[i]))]
         IN  MathMaxAll(combined)

-----------------------------------------------------------------------------
(* The similarity functions applied to a pair of texts, in both orders *)

\* a content word, a capitalised content word with punctuation, a
\* capitalised stopword, and the word an object literal inherits
SimWords ==
    { <<"c", "a", "t">>, <<"S", "a", "t", "?">>, <<"T", "h", "e">>, InheritedKey }

\* the texts of at most MaxWords words, the words separated by one space
SimTexts == {Join(ws, <<SP>>) : ws \in SeqsUpTo(SimWords, MaxWords)}

InitSim ==
    /\ text = <<>>
    /\ chunkChars = 0
    /\ overlapChars = 0
    /\ sentences = <<>>
    /\ idx = 0
    /\ charPos = 0
    /\ chunks = <<>>
    /\ pc = "idle"
    /\ once = <<>>
    /\ twice = <<>>
    /\ GraderIdle
    /\ RestIdle

\* each function is called on (a, b) and on (b, a); the pair with the
\* longer text first is the same call with the two results exchanged
SimCall ==
    /\ pc = "idle"
    /\ \E a \in SimTexts :
       \E ta \in {tokens(a)}, ba \in {bigrams(a)} :
       \E b \in {t \in SimTexts : Len(a) <= Len(t)} :
       \E tb \in {tokens(b)}, bb \in {bigrams(b)} :
          /\ simA' = a
          /\ simB' = b
          /\ simOut' = [ jaccard |-> <<jaccard(ta, tb), jaccard(tb, ta)>>,
                         cosineSim |-> <<cosineSim(ta, tb), cosineSim(tb, ta)>>,
                         bigramJaccard |-> <<bigramJaccard(ba, bb), bigramJaccard(bb, ba)>>,
                         semanticSimilarity |->
                             <<semanticSimilarity(a, b), semanticSimilarity(b, a)>> ]
    /\ pc' = "called"
    /\ UNCHANGED <<text, chunkChars, overlapChars, sentences, idx, charPos, chunks, once, twice,
                   view, settings, quiz, submission, attemptResult, history, restVars>>

NextSim == SimCall

SpecSim == InitSim /\ [][NextSim]_vars

\* C7: semanticSimilarity, jaccard, cosineSim and the bigram Jaccard each
\* return the same value for (a, b) and for (b, a).
SimilaritySymmetric ==
    pc = "called" =>
        /\ simOut.semanticSimilarity[1] = simOut.semanticSimilarity[2]
        /\ simOut.jaccard[1] = simOut.jaccard[2]
        /\ simOut.cosineSim[1] = simOut.cosineSim[2]
        /\ simOut.bigramJaccard[1] = simOut.bigramJaccard[2]

\* two texts with different token sets of different sizes, whose cosine is
\* a rounded irrational above their Jaccard index and below 1, and which
\* share one of their bigrams but not all
SimilaritySymmetricWitness ==
    /\ pc = "called"
    /\ Len(tokens(simA)) < Len(tokens(simB))
    /\ ScoreLess(Zero, simOut.jaccard[1])
    /\ ScoreLess(simOut.jaccard[1], simOut.cosineSim[1])
    /\ ScoreLess(simOut.cosineSim[1], One)
    /\ simOut.cosineSim[1][3] # 0
    /\ simOut.semanticSimilarity[1] = simOut.cosineSim[1]
    /\ ScoreLess(Zero, simOut.bigramJaccard[1])
    /\ ScoreLess(simOut.bigramJaccard[1], One)

-----------------------------------------------------------------------------
(* handleQuizFinish, app/page.tsx: grading a submission *)

\* arr[0], with "undefined" for the element an empty array does not have
First(arr) == IF Len(arr) = 0 THEN "undefined" ELSE arr[1]

\* the choice ids, in the order String comparison gives them
ChoiceIds == <<"c1", "c2", "c3">>

Rank(id) == CHOOSE k \in 1..Len(ChoiceIds) : ChoiceIds[k] = id

\* arr.slice().sort() for an array of choice ids
RECURSIVE SortIds(_)
SortIds(arr) ==
    IF Len(arr) = 0 THEN <<>>
    ELSE LET m == CHOOSE i \in 1..Len(arr) : \A k \in 1..Len(arr) : Rank(arr[i]) <= Rank(arr[k])
         IN  <<arr[m]>> \o SortIds(SubSeq(arr, 1, m - 1) \o SubSeq(arr, m + 1, Len(arr)))

\* question.match_pairs.every(pair => the user's pair with that left has that right)
AllMatched(question, ans) ==
    \A k \in 1..Len(question.match_pairs) :
        LET pair == question.match_pairs[k]
            found == {i \in 1..Len(ans.match_pairs) : ans.match_pairs[i].left = pair.left}
        IN  /\ found # {}
            /\ ans.match_pairs[CHOOSE i \in found : \A h \in found : i <= h].right = pair.right

\* the literal 0.6 of `sim >= 0.6`
Threshold == Ratio(3, 5)

\* a slip: the fraction is cut off instead of rounded
MathFloorTimes(sim, points) ==
    CHOOSE k \in 0..(points + 1) :
        /\ k * k * sim[2] <= points * points * sim[1]
        /\ (k + 1) * (k + 1) * sim[2] > points * points * sim[1]

\* Math.round(sim * points) for a double sim that is not NaN and points 1 or
\* 2 (the product by 1 or 2 is exact): the integer k with
\* k - 1/2 <= sim * points < k + 1/2
MathRoundTimes(sim, points) ==
    LET Reaches(k) ==
            \/ 2 * k - 1 <= 0
            \/ (2 * k - 1) * (2 * k - 1) * sim[2] < 4 * points * points * sim[1]
            \/ /\ (2 * k - 1) * (2 * k - 1) * sim[2] = 4 * points * points * sim[1]
               /\ sim[3] >= 0
    IN  CASE points \in {1, 2} ->
             CHOOSE k \in 0..(points + 1) : Reaches(k) /\ ~Reaches(k + 1)

\* the expected answers of a written question
Expected(question) ==
    IF Len(question.correct_written_answers) > 0
    THEN question.correct_written_answers
    ELSE <<question.prompt>>

\* the body of submission.answers.forEach for one answer of a question found:
\* isCorrect, and ans._awarded_points || 0
GradeAnswer(question, ans) ==
    CASE question.type = "single" ->
           [ isCorrect |-> First(ans.selected_choice_ids) = First(question.correct_choice_ids),
             awarded |-> 0 ]
      [] question.type = "multiple" ->
           [ isCorrect |-> SortIds(ans.selected_choice_ids) = SortIds(question.correct_choice_ids),
             awarded |-> 0 ]
      [] question.type = "match" ->
           [ isCorrect |-> AllMatched(question, ans),
             awarded |-> 0 ]
      [] question.type = "written" ->
           LET sim == semanticMatchScore(ans.written_answer, Expected(question))
           IN  [ isCorrect |-> ScoreGeq(sim, Threshold),
                 awarded |-> Max(0, MathRoundTimes(OrZero(sim), question.points)) ]

\* quiz.questions.find(q => q.question_id === id), as the set of its positions
FindQuestion(questions, id) == {i \in 1..Len(questions) : questions[i].question_id = id}

\* topicStats after one more question of topic t
RECURSIVE CountTopic(_, _, _)
CountTopic(stats, t, isCorrect) ==
    IF Len(stats) = 0
    THEN << [topic |-> t, correct_count |-> IF isCorrect THEN 1 ELSE 0, total |-> 1] >>
    ELSE IF stats[1].topic = t
    THEN << [topic |-> t,
             correct_count |-> stats[1].correct_count + (IF isCorrect THEN 1 ELSE 0),
             total |-> stats[1].total + 1] >> \o Tail(stats)
    ELSE <<stats[1]>> \o CountTopic(Tail(stats), t, isCorrect)

RECURSIVE CountTopics(_, _, _)
CountTopics(stats, ts, isCorrect) ==
    IF Len(ts) = 0 THEN stats
    ELSE CountTopics(CountTopic(stats, ts[1], isCorrect), Tail(ts), isCorrect)

\* submission.answers.forEach(...) from answer k on: score, perQuestion, topicStats
RECURSIVE GradeFrom(_, _, _, _)
GradeFrom(questions, answers, k, acc) ==
    IF k > Len(answers) THEN acc
    ELSE LET ans == answers[k]
             found == FindQuestion(questions, ans.question_id)
         IN  IF found = {} THEN GradeFrom(questions, answers, k + 1, acc)
             ELSE LET question == questions[CHOOSE i \in found : \A h \in found : i <= h]
                      g == GradeAnswer(question, ans)
                      entry == [ question_id |-> question.question_id,
                                 prompt |-> question.prompt,
                                 correct |-> g.isCorrect,
                                 points_awarded |->
                                     IF g.isCorrect THEN question.points ELSE g.awarded,
                                 correct_choice_ids |-> question.correct_choice_ids,
                                 correct_written_answers |-> question.correct_written_answers,
                                 match_pairs |-> question.match_pairs,
                                 user_selected_choice_ids |-> ans.selected_choice_ids,
                                 user_written_answer |-> ans.written_answer,
                                 user_match_pairs |-> ans.match_pairs ]
                  IN  GradeFrom(questions, answers, k + 1,
                        [ score |-> acc.score +
                                    (IF g.isCorrect THEN question.points ELSE g.awarded),
                          perQuestion |-> Append(acc.perQuestion, entry),
                          topicStats |-> CountTopics(acc.topicStats, question.topics,
                                                     g.isCorrect) ])

\* Math.round((score / total_points) * 100), total_points > 0
RoundPercent(score, total_points) == (200 * score + total_points) \div (2 * total_points)

\* what `?? 70` puts in place of a passing score that is not set
DefaultPassingScore == 70

\* settings.passing_score is a number, <<n>>, or null, <<>>
PassingScores == {<<DefaultPassingScore>>, <<0>>, <<>>}

\* settings?.passing_score ?? 70
MetaPassingScore(passing_score) ==
    IF passing_score = <<>> THEN DefaultPassingScore ELSE passing_score[1]

\* the field `passed` of the result; a score of at most 7 points keeps
\* the quotient away from the halves that rounding could move
Passed(score, total_points, passing_score) ==
    CASE total_points < 8 ->
        IF total_points = 0 THEN FALSE
        ELSE IF passing_score # <<>> /\ passing_score[1] # 0
        THEN RoundPercent(score, total_points) >= passing_score[1]
        ELSE 10 * score > 7 * total_points

-----------------------------------------------------------------------------
(* A quiz is accepted, played and graded *)

WordCat == <<"c", "a", "t">>

WordSat == <<"s", "a", "t">>

WordDog == <<"d", "o", "g">>

WordThe == <<"T", "h", "e">>

\* the words of ws, separated by one space
Phrase(ws) == Join(ws, <<SP>>)

\* the questions a preview can offer: written questions with one, two or no
\* expected answers (the generator of the app gives none) and 1 or 2 points,
\* and one question of each other type (the single one as the generator
\* of the app builds it, without a correct choice)
QuestionBank ==
    << [ question_id |-> "q1", type |-> "written", prompt |-> Phrase(<<WordDog>>),
         correct_written_answers |-> << Phrase(<<WordCat, WordSat>>) >>,
         correct_choice_ids |-> <<>>, match_pairs |-> <<>>,
         points |-> 1, topics |-> <<"General">> ],
       [ question_id |-> "q2", type |-> "written", prompt |-> Phrase(<<WordDog>>),
         correct_written_answers |-> << Phrase(<<WordDog>>), Phrase(<<WordCat, WordSat>>) >>,
         correct_choice_ids |-> <<>>, match_pairs |-> <<>>,
         points |-> 2, topics |-> <<"General">> ],
       [ question_id |-> "q3", type |-> "written", prompt |-> Phrase(<<WordDog>>),
         correct_written_answers |-> << Phrase(<<WordCat, WordSat, WordDog>>) >>,
         correct_choice_ids |-> <<>>, match_pairs |-> <<>>,
         points |-> 1, topics |-> <<"Animals">> ],
       [ question_id |-> "q4", type |-> "written", prompt |-> Phrase(<<WordDog>>),
         correct_written_answers |-> << WordThe, <<"?">> >>,
         correct_choice_ids |-> <<>>, match_pairs |-> <<>>,
         points |-> 2, topics |-> <<"General">> ],
       [ question_id |-> "q5", type |-> "written",
         prompt |-> Phrase(<<WordCat, WordSat, WordSat>>),
         correct_written_answers |-> <<>>,
         correct_choice_ids |-> <<>>, match_pairs |-> <<>>,
         points |-> 1, topics |-> <<"Animals">> ],
       [ question_id |-> "q6", type |-> "single", prompt |-> <<>>,
         correct_written_answers |-> <<>>,
         correct_choice_ids |-> <<>>, match_pairs |-> <<>>,
         points |-> 1, topics |-> <<"General">> ],
       [ question_id |-> "q7", type |-> "multiple", prompt |-> <<>>,
         correct_written_answers |-> <<>>,
         correct_choice_ids |-> <<"c3", "c1">>, match_pairs |-> <<>>,
         points |-> 2, topics |-> <<"Animals">> ],
       [ question_id |-> "q8", type |-> "match", prompt |-> <<>>,
         correct_written_answers |-> <<>>,
         correct_choice_ids |-> <<>>,
         match_pairs |-> << [left |-> "Item A", right |-> "Answer 1"],
                            [left |-> "Item B", right |-> "Answer 2"] >>,
         points |-> 2, topics |-> <<"Animals">> ] >>

\* what can be typed into the text area of a written question
WrittenAnswers ==
    { <<>>, <<SP>>, <<"?">>, WordThe,
      Phrase(<<WordCat>>), Phrase(<<WordCat, WordSat>>), Phrase(<<WordCat, WordDog>>),
      Phrase(<<WordCat, WordSat, WordDog>>) }

\* the answers the player can hold for a question when the quiz is submitted
AnswersFor(question) ==
    LET blank == [ question_id |-> question.question_id, selected_choice_ids |-> <<>>,
                   written_answer |-> <<>>, match_pairs |-> <<>> ]
    IN  CASE question.type = "written" ->
               {[blank EXCEPT !.written_answer = w] : w \in WrittenAnswers}
          [] question.type = "single" ->
               {[blank EXCEPT !.selected_choice_ids = ids] : ids \in {<<>>, <<"c1">>, <<"c2">>}}
          [] question.type = "multiple" ->
               {[blank EXCEPT !.selected_choice_ids = ids] :
                    ids \in {<<>>, <<"c1">>, <<"c1", "c3">>, <<"c3", "c1">>}}
          [] question.type = "match" ->
               {[blank EXCEPT !.match_pairs = ps] :
                    ps \in { <<>>,
                             << [left |-> "Item A", right |-> "Answer 1"],
                                [left |-> "Item B", right |-> "Answer 2"] >>,
                             << [left |-> "Item B", right |-> "Answer 1"],
                                [left |-> "Item A", right |-> "Answer 1"] >> }}

\* Object.entries(finalAnswers).map(...): one answer for each question of
\* questions[k..] the player has an entry for, the questions visited in order
RECURSIVE Submissions(_, _)
Submissions(questions, k) ==
    IF k > Len(questions) THEN {<<>>}
    ELSE LET rest == Submissions(questions, k + 1)
         IN  rest \cup {<<a>> \o r : a \in AnswersFor(questions[k]), r \in rest}

\* previewQuestions.reduce((acc, q) => acc + (q.points || 0), 0)
RECURSIVE SumPoints(_)
SumPoints(questions) ==
    IF Len(questions) = 0 THEN 0 ELSE questions[1].points + SumPoints(Tail(questions))

\* the previews: questions of the bank, in its order
RECURSIVE Previews(_, _)
Previews(k, n) ==
    IF k > Len(QuestionBank) \/ n = 0 THEN {<<>>}
    ELSE Previews(k + 1, n) \cup {<<QuestionBank[k]>> \o r : r \in Previews(k + 1, n - 1)}

InitGrade ==
    /\ text = <<>>
    /\ chunkChars = 0
    /\ overlapChars = 0
    /\ sentences = <<>>
    /\ idx = 0
    /\ charPos = 0
    /\ chunks = <<>>
    /\ pc = "idle"
    /\ once = <<>>
    /\ twice = <<>>
    /\ simA = <<>>
    /\ simB = <<>>
    /\ simOut = <<>>
    /\ view = "upload"
    /\ settings \in {[passing_score |-> ps] : ps \in PassingScores}
    /\ quiz = <<>>
    /\ submission = <<>>
    /\ attemptResult = <<>>
    /\ history = <<>>
    /\ RestIdle

acceptPreviewAsQuiz ==
    /\ view = "upload"
    /\ \E previewQuestions \in Previews(1, MaxQuestions) \ {<<>>} :
          quiz' = [ questions |-> previewQuestions,
                    total_points |-> SumPoints(previewQuestions) ]
    /\ view' = "quiz"
    /\ UNCHANGED <<text, chunkChars, overlapChars, sentences, idx, charPos, chunks, pc, once,
                   twice, simA, simB, simOut, settings, submission, attemptResult, history,
                   restVars>>

\* the player hands its submission to onFinish = handleQuizFinish
handleQuizFinish ==
    /\ view = "quiz"
    /\ quiz # <<>>
    /\ \E sub \in Submissions(quiz.questions, 1) :
       \E graded \in {GradeFrom(quiz.questions, sub, 1,
                        [score |-> 0, perQuestion |-> <<>>, topicStats |-> <<>>])} :
       \E result \in {[ score |-> graded.score,
                        total_points |-> quiz.total_points,
                        per_question |-> graded.perQuestion,
                        passed |-> Passed(graded.score, quiz.total_points,
                                          settings.passing_score),
                        meta |-> [passing_score |->
                                      MetaPassingScore(settings.passing_score)],
                        topics_covered |-> graded.topicStats ]} :
          /\ submission' = sub
          /\ attemptResult' = result
          /\ history' = Append(history, result)
    /\ view' = "result"
    /\ UNCHANGED <<text, chunkChars, overlapChars, sentences, idx, charPos, chunks, pc, once,
                   twice, simA, simB, simOut, settings, quiz, restVars>>

NextGrade == acceptPreviewAsQuiz \/ handleQuizFinish

SpecGrade == InitGrade /\ [][NextGrade]_vars

-----------------------------------------------------------------------------
(* Properties of the grader *)

\* the question of the k-th entry of the result
QuestionOf(k) ==
    quiz.questions[CHOOSE i \in 1..Len(quiz.questions) :
        quiz.questions[i].question_id = attemptResult.per_question[k].question_id]

\* the entries of the result that belong to written questions
WrittenEntries ==
    {k \in 1..Len(attemptResult.per_question) : QuestionOf(k).type = "written"}

\* the similarity score s of the response of the k-th entry
EntryScore(k) ==
    semanticMatchScore(attemptResult.per_question[k].user_written_answer,
                       Expected(QuestionOf(k)))

\* C8: a non-empty response identical to one of the expected answers scores
\* 1.0 and is classified correct.
IdenticalIsCorrect ==
    view = "result" =>
        \A k \in WrittenEntries :
            LET entry == attemptResult.per_question[k]
                expected == Expected(QuestionOf(k))
            IN  (/\ entry.user_written_answer # <<>>
                 /\ \E i \in 1..Len(expected) : expected[i] = entry.user_written_answer)
                => (EntryScore(k) = One /\ entry.correct)

\* C9: an empty or whitespace-only response scores 0 against the expected
\* answers, is classified incorrect and is awarded 0 points.
BlankScoresZero ==
    view = "result" =>
        \A k \in WrittenEntries :
            LET entry == attemptResult.per_question[k]
            IN  Trim(entry.user_written_answer) = <<>>
                => (EntryScore(k) = Zero /\ ~entry.correct /\ entry.points_awarded = 0)

\* an empty response to one written question and a response of one space
\* to another with two expected answers, both graded
BlankScoresZeroWitness ==
    /\ view = "result"
    /\ \E k \in WrittenEntries :
          /\ attemptResult.per_question[k].user_written_answer = <<>>
          /\ QuestionOf(k).points = 1
    /\ \E k \in WrittenEntries :
          /\ attemptResult.per_question[k].user_written_answer = <<SP>>
          /\ Len(Expected(QuestionOf(k))) = 2
          /\ QuestionOf(k).points = 2
    /\ attemptResult.score = 0

\* C29: `passed` is true exactly when the score, as a percentage of
\* total_points rounded to the nearest integer, is at least the
\* meta.passing_score of the result, for a passing score of 0, of 70 and
\* for one that is not set (meta.passing_score is then 70)
PassedAtPassingScore ==
    view = "result" =>
        (attemptResult.passed <=>
            RoundPercent(attemptResult.score, attemptResult.total_points)
                >= attemptResult.meta.passing_score)

\* the entry records no selection, no text and no pair
Unanswered(entry) ==
    /\ entry.user_selected_choice_ids = <<>>
    /\ entry.user_written_answer = <<>>
    /\ entry.user_match_pairs = <<>>

\* C27: a question submitted without an answer is never classified
\* correct, whatever its type and whatever the quiz
UnansweredNotCorrect ==
    view = "result" =>
        \A k \in DOMAIN attemptResult.per_question :
            Unanswered(attemptResult.per_question[k]) => ~attemptResult.per_question[k].correct

\* k is an integer nearest to s * p:  2k - 1 <= 2 * s * p <= 2k + 1
Nearest(k, s, p) ==
    /\ 2 * k - 1 <= 0 \/ (2 * k - 1) * (2 * k - 1) * s[2] <= 4 * p * p * s[1]
    /\ 4 * p * p * s[1] <= (2 * k + 1) * (2 * k + 1) * s[2]

RECURSIVE SumAwarded(_)
SumAwarded(entries) ==
    IF Len(entries) = 0 THEN 0 ELSE entries[1].points_awarded + SumAwarded(Tail(entries))

IncorrectBelowPoints ==
    view = "result" =>
        \A k \in DOMAIN attemptResult.per_question :
            \E entry \in {attemptResult.per_question[k]}, p \in {QuestionOf(k).points} :
                /\ entry.points_awarded \in 0..p
                /\ ~entry.correct => entry.points_awarded < p

-----------------------------------------------------------------------------
(* The generate-question route handler: phrases *)

IsUpper(c) == \E k \in 1..26 : UpperCase[k] = c

IsLower(c) == \E k \in 1..26 : LowerCase[k] = c

\* the characters of the class [a-zA-Z0-9]
IsAlnum(c) == IsUpper(c) \/ IsLower(c) \/ (\E d \in 0..9 : Digit(d) = c)

\* the position of the quote q that closes the one at s[i], or 0
ClosingQuote(s, i, q) ==
    LET later == {j \in (i + 1)..Len(s) : s[j] = q}
    IN  IF later = {} THEN 0 ELSE CHOOSE j \in later : \A h \in later : j <= h

\* /"([^"]{3,})"|'([^']{3,})'/ matched at position i: the group, or <<>>
QuoteAt(s, i) ==
    IF s[i] \in {"\"", "'"} /\ ClosingQuote(s, i, s[i]) - i - 1 >= 3
    THEN SubSeq(s, i + 1, ClosingQuote(s, i, s[i]) - 1)
    ELSE <<>>

\* sentence.match(/"([^"]{3,})"|'([^']{3,})'/): m[1] || m[2], or <<>> for no match
QuoteMatch(s) ==
    LET hits == {i \in 1..Len(s) : QuoteAt(s, i) # <<>>}
    IN  IF hits = {} THEN <<>> ELSE QuoteAt(s, CHOOSE i \in hits : \A h \in hits : i <= h)

\* the last position of the run of [a-z] that starts at i (i - 1 if none)
RECURSIVE LowerRunEnd(_, _)
LowerRunEnd(s, i) ==
    IF i <= Len(s) /\ IsLower(s[i]) THEN LowerRunEnd(s, i + 1) ELSE i - 1

\* the last position of the run of \s that starts at i (i - 1 if none)
RECURSIVE SpaceRunEnd(_, _)
SpaceRunEnd(s, i) ==
    IF i <= Len(s) /\ IsSpace(s[i]) THEN SpaceRunEnd(s, i + 1) ELSE i - 1

\* [A-Z][a-z]+ matched at i: its last position, or 0
CapWordEnd(s, i) ==
    IF i <= Len(s) /\ IsUpper(s[i]) /\ LowerRunEnd(s, i + 1) >= i + 1
    THEN LowerRunEnd(s, i + 1)
    ELSE 0

\* (?:\s+[A-Z][a-z]+){0,n} matched greedily after position e: its last position
RECURSIVE MoreCapWords(_, _, _)
MoreCapWords(s, e, n) ==
    LET sp == SpaceRunEnd(s, e + 1)
        w == CapWordEnd(s, sp + 1)
    IN  IF n > 0 /\ sp >= e + 1 /\ w > 0 THEN MoreCapWords(s, w, n - 1) ELSE e

\* sentence.match(/([A-Z][a-z]+(?:\s+[A-Z][a-z]+){0,3})/g), scanning from i
RECURSIVE ProperNouns(_, _)
ProperNouns(s, i) ==
    IF i > Len(s) THEN <<>>
    ELSE IF CapWordEnd(s, i) = 0 THEN ProperNouns(s, i + 1)
    ELSE LET e == MoreCapWords(s, CapWordEnd(s, i), 3)
         IN  <<SubSeq(s, i, e)>> \o ProperNouns(s, e + 1)

\* arr.reduce((a, b) => (a.length > b.length ? a : b)) for a non-empty array
RECURSIVE Longest(_)
Longest(arr) ==
    IF Len(arr) = 1 THEN arr[1]
    ELSE LET a == Longest(SubSeq(arr, 1, Len(arr) - 1))
             b == arr[Len(arr)]
         IN  IF Len(a) > Len(b) THEN a ELSE b

\* s.split(/\s+/)
RECURSIVE SplitWhitespace(_, _)
SplitWhitespace(s, cur) ==
    IF s = <<>> THEN <<cur>>
    ELSE IF IsSpace(Head(s)) THEN <<cur>> \o SplitWhitespace(TrimStart(s), <<>>)
    ELSE SplitWhitespace(Tail(s), Append(cur, Head(s)))

\* w.replace(/[^a-zA-Z0-9]/g, '')
StripNonAlnum(w) == SelectSeq(w, IsAlnum)

pickAnswerPhrase(sentence) ==
    LET quoteMatch == QuoteMatch(sentence)
        pn == ProperNouns(sentence, 1)
        split == SplitWhitespace(sentence, <<>>)
        words == [i \in DOMAIN split |-> StripNonAlnum(split[i])]
        candidates == SelectSeq(words, LAMBDA w : Len(w) > 4)
        atLeast3 == SelectSeq(words, LAMBDA w : Len(w) >= 3)
    IN  IF quoteMatch # <<>> THEN quoteMatch
        ELSE IF Len(pn) > 0 THEN Longest(pn)
        ELSE IF Len(candidates) > 0 THEN Longest(candidates)
        ELSE IF Len(atLeast3) > 0 THEN atLeast3[1]
        ELSE <<>>

\* the first position at which phrase occurs in sentence, ignoring case, or 0
FirstOccurrence(sentence, phrase) ==
    LET low == toLowerCase(sentence)
        lp == toLowerCase(phrase)
        at == {i \in 1..(Len(sentence) - Len(phrase) + 1) :
                  SubSeq(low, i, i + Len(phrase) - 1) = lp}
    IN  IF at = {} THEN 0 ELSE CHOOSE i \in at : \A h \in at : i <= h

Blank == <<"_", "_", "_", "_", "_", "_">>

blankOut(sentence, phrase) ==
    IF phrase = <<>> THEN sentence
    ELSE LET i == FirstOccurrence(sentence, phrase)
         IN  IF i = 0 THEN sentence
             ELSE SubSeq(sentence, 1, i - 1) \o Blank
                  \o SubSeq(sentence, i + Len(phrase), Len(sentence))

-----------------------------------------------------------------------------
(* The generate-question route handler: distractors *)

\* Array.from(new Set(arr)): the first occurrence of every element, in order
RECURSIVE Dedupe(_)
Dedupe(arr) ==
    IF Len(arr) = 0 THEN <<>>
    ELSE LET init == Dedupe(SubSeq(arr, 1, Len(arr) - 1))
             x == arr[Len(arr)]
         IN  IF \E i \in DOMAIN init : init[i] = x THEN init ELSE Append(init, x)

\* arr.slice(0, n)
Take(arr, n) == SubSeq(arr, 1, Min(n, Len(arr)))

\* scored.sort((a, b) => b.s - a.s): descending by s, equal scores keep their order
RECURSIVE SortByScore(_)
SortByScore(scored) ==
    IF Len(scored) = 0 THEN <<>>
    ELSE LET m == CHOOSE i \in DOMAIN scored :
                      /\ \A k \in DOMAIN scored : ~ScoreLess(scored[i].s, scored[k].s)
                      /\ \A k \in 1..(i - 1) : ScoreLess(scored[k].s, scored[i].s)
         IN  <<scored[m]>> \o
             SortByScore(SubSeq(scored, 1, m - 1) \o SubSeq(scored, m + 1, Len(scored)))

\* the literals 0.12 and 0.75, the defaults of MIN_SIM and MAX_SIM
DefaultMinSim == Ratio(3, 25)

DefaultMaxSim == Ratio(3, 4)

\* the s-th part x * 0.6 of a threshold x that is a quotient of integers
TimesSixTenths(x) ==
    LET g == GCD(9 * x[1], 25 * x[2])
    IN  <<(9 * x[1]) \div g, (25 * x[2]) \div g, 0>>

\* the helper pickFiltered of the handler
pickFiltered(cands, ans, minSim, maxSim) ==
    LET scored == [i \in DOMAIN cands |-> [p |-> cands[i], s |-> semanticSimilarity(ans, cands[i])]]
        inBand == SelectSeq(scored, LAMBDA x : ScoreGeq(x.s, minSim) /\ ScoreGeq(maxSim, x.s))
        inRange == [i \in DOMAIN inBand |-> SortByScore(inBand)[i].p]
        low == SelectSeq(scored, LAMBDA x : ScoreGeq(x.s, TimesSixTenths(minSim)))
        relaxed == [i \in DOMAIN low |-> SortByScore(low)[i].p]
    IN  IF Len(inRange) >= 3 THEN Take(inRange, 3)
        ELSE Take(Dedupe(inRange \o relaxed), 3)

\* the arrays shuffle(arr) can return
Shuffles(arr) ==
    LET n == Len(arr)
        perms == {f \in [1..n -> 1..n] : \A i, j \in 1..n : f[i] = f[j] => i = j}
    IN  {[i \in 1..n |-> arr[f[i]]] : f \in perms}

\* |x|
Abs(x) == IF x < 0 THEN -x ELSE x

\* the final fallback
Filler == << "A", "n", " ", "u", "n", "r", "e", "l", "a", "t", "e", "d", " ",
             "s", "t", "a", "t", "e", "m", "e", "n", "t" >>

\* while (distractors.length < 3) distractors.push('An unrelated statement')
RECURSIVE PadWithFiller(_)
PadWithFiller(distractors) ==
    IF Len(distractors) < 3 THEN PadWithFiller(Append(distractors, Filler)) ELSE distractors

\* the phrases of the sentences of the texts an embedding query returned
\* that differ from the answer
RECURSIVE CandPhrases(_, _)
CandPhrases(candTexts, ans) ==
    IF Len(candTexts) = 0 THEN <<>>
    ELSE LET ss == splitIntoSentences(candTexts[1])
             ph == [i \in DOMAIN ss |-> pickAnswerPhrase(ss[i])]
         IN  SelectSeq(ph, LAMBDA p : p # <<>> /\ toLowerCase(p) # toLowerCase(ans))
             \o CandPhrases(Tail(candTexts), ans)

\* uniq: candPhrases deduplicated and filtered by length
CandUniq(candTexts, ans) ==
    SelectSeq(Dedupe(CandPhrases(candTexts, ans)),
              LAMBDA p : Abs(Len(p) - Len(ans)) < Max(12, Len(ans) + 6))

\* others: the document phrases that can stand beside the answer
Others(phr, ans) ==
    SelectSeq(phr, LAMBDA p : /\ toLowerCase(p) # toLowerCase(ans)
                              /\ Abs(Len(p) - Len(ans)) < Max(6, Len(ans)))

-----------------------------------------------------------------------------
(* The generate-question route handler: requests and replies *)

\* We moved to New York last year.
SentYork ==
    << "W", "e", " ", "m", "o", "v", "e", "d", " ", "t", "o", " ",
       "N", "e", "w", " ", "Y", "o", "r", "k", " ", "l", "a", "s",
       "t", " ", "y", "e", "a", "r", "." >>

\* She visited New Jersey in May.
SentJersey ==
    << "S", "h", "e", " ", "v", "i", "s", "i", "t", "e", "d", " ",
       "N", "e", "w", " ", "J", "e", "r", "s", "e", "y", " ", "i",
       "n", " ", "M", "a", "y", "." >>

\* They flew to New Delhi at night.
SentDelhi ==
    << "T", "h", "e", "y", " ", "f", "l", "e", "w", " ", "t", "o",
       " ", "N", "e", "w", " ", "D", "e", "l", "h", "i", " ", "a",
       "t", " ", "n", "i", "g", "h", "t", "." >>

\* He drove to New Mexico by car.
SentMexico ==
    << "H", "e", " ", "d", "r", "o", "v", "e", " ", "t", "o", " ",
       "N", "e", "w", " ", "M", "e", "x", "i", "c", "o", " ", "b",
       "y", " ", "c", "a", "r", "." >>

\* He wrote "An unrelated statement" here.
SentQuoted ==
    << "H", "e", " ", "w", "r", "o", "t", "e", " ", "\"", "A", "n",
       " ", "u", "n", "r", "e", "l", "a", "t", "e", "d", " ", "s",
       "t", "a", "t", "e", "m", "e", "n", "t", "\"", " ", "h", "e",
       "r", "e", "." >>

\* a b c d e f g h i j k l m.
SentLetters ==
    << "a", " ", "b", " ", "c", " ", "d", " ", "e", " ", "f", " ",
       "g", " ", "h", " ", "i", " ", "j", " ", "k", " ", "l", " ",
       "m", "." >>

\* New York is big.
SentShort ==
    << "N", "e", "w", " ", "Y", "o", "r", "k", " ", "i", "s", " ",
       "b", "i", "g", "." >>

\* the requests: chunks of one or two sentences each, a chunk whose quoted
\* phrase is the filler, a chunk without a usable phrase, a chunk without a
\* usable sentence, and no chunks at all
GenRequests ==
    { [chunks |-> <<SentYork, Phrase(<<SentJersey, SentDelhi>>), SentMexico>>, question_count |-> 1],
      [chunks |-> <<SentYork, Phrase(<<SentJersey, SentDelhi>>)>>, question_count |-> 1],
      [chunks |-> <<SentYork>>, question_count |-> 2],
      [chunks |-> <<SentQuoted>>, question_count |-> 1],
      [chunks |-> <<SentLetters>>, question_count |-> 1],
      [chunks |-> <<SentShort>>, question_count |-> 1],
      [chunks |-> <<>>, question_count |-> 1] }

\* what the embedding service can answer to a query: a reply that is not
\* JSON or a connection that fails ("error"), or a list of texts
EmbeddingReplies ==
    { [kind |-> "error", results |-> <<>>],
      [kind |-> "json", results |-> <<>>],
      [kind |-> "json", results |-> <<SentJersey>>],
      [kind |-> "json", results |-> <<Phrase(<<SentJersey, SentDelhi>>),
                                      Phrase(<<SentMexico, SentYork>>)>>] }

\* const sentences: the sentences of the texts longer than 20 characters
RECURSIVE SentencePool(_)
SentencePool(ts) ==
    IF Len(ts) = 0 THEN <<>>
    ELSE SelectSeq(splitIntoSentences(ts[1]), LAMBDA ss : Len(ss) > 20) \o SentencePool(Tail(ts))

\* pickAnswerPhrase(s) of every sentence of the pool
SentencePhrases(ss) == [i \in DOMAIN ss |-> pickAnswerPhrase(ss[i])]

\* const phrases: the answer phrases of the sentences, each once
PhrasePool(ps) == Dedupe(SelectSeq(ps, LAMBDA p : Len(p) > 1))

\* the choices of rawChoices; makeId draws the ids at random, the position
\* of a choice stands for its id
Choices(rawChoices) == [i \in DOMAIN rawChoices |-> [choice_id |-> i, text |-> rawChoices[i]]]

\* choices.filter(c => String(c.text) === String(answer)).map(c => c.choice_id)
CorrectChoiceIds(choices, ans) ==
    LET hits == SelectSeq(choices, LAMBDA c : c.text = ans)
    IN  [i \in DOMAIN hits |-> hits[i].choice_id]

\* the question pushed at the end of an iteration
GenQuestion(n, s, ans, rawChoices) ==
    [question_id |-> n,
     type |-> "single",
     prompt |-> blankOut(s, ans),
     choices |-> Choices(rawChoices),
     correct_choice_ids |-> CorrectChoiceIds(Choices(rawChoices), ans),
     correct_written_answers |-> <<>>,
     explanation |-> s,
     points |-> 1]

\* the distractors after the fallback to the document phrases
WithLocal(distractors, ans) ==
    IF Len(distractors) < 3
    THEN {distractors \o pickFiltered(others, ans, DefaultMinSim, DefaultMaxSim) :
              others \in Shuffles(Others(phrases, ans))}
    ELSE {distractors}

\* the rest of an iteration once the distractors of the embedding service
\* are known: local fallback, filler, shuffle, push
FinishQuestion(s, ans, distractors) ==
    \E d \in WithLocal(distractors, ans) :
        \E rawChoices \in Shuffles(<<ans>> \o PadWithFiller(d)) :
            genQuestions' = Append(genQuestions, GenQuestion(Len(genQuestions), s, ans, rawChoices))

\* the sentence pool and the phrase pool are built from texts; without a
\* usable sentence the request ends with 400
BuildPools(ts) ==
    /\ texts' = ts
    /\ \E ss \in {SentencePool(ts)} :
        /\ genSentences' = ss
        /\ IF Len(ss) = 0
           THEN /\ genPc' = "done"
                /\ genResponse' = [status |-> 400, error |-> "no usable sentences extracted"]
                /\ sentPhrases' = <<>>
                /\ phrases' = <<>>
           ELSE /\ genPc' = "loop"
                /\ genResponse' = <<>>
                /\ \E ps \in {SentencePhrases(ss)} :
                    /\ sentPhrases' = ps
                    /\ phrases' = PhrasePool(ps)

chunkVars == <<text, chunkChars, overlapChars, sentences, idx, charPos, chunks, pc, once, twice>>

\* POST /api/generate-question arrives: the body is parsed, and the texts
\* come from its chunks or are asked from the embedding service
GenRequest ==
    /\ genPc = "idle"
    /\ \E body \in GenRequests :
        /\ genBody' = body
        /\ IF Len(body.chunks) > 0
           THEN BuildPools(SelectSeq(body.chunks, LAMBDA t : t # <<>>))
           ELSE IF ~embeddingUrl
                THEN /\ genPc' = "done"
                     /\ genResponse' = [status |-> 400,
                            error |-> "no chunks provided and EMBEDDING_SERVICE_URL not configured"]
                     /\ UNCHANGED <<texts, genSentences, sentPhrases, phrases>>
                ELSE /\ genPc' = "awaitQuery"
                     /\ UNCHANGED <<texts, genSentences, sentPhrases, phrases, genResponse>>
    /\ UNCHANGED <<embeddingUrl, genQuestions, attempts, sent, answer>>
    /\ UNCHANGED <<chunkVars, graderVars, extVars, upVars, mockVars, playerVars, pickVars>>

\* the embedding service settles the query for the texts: a failure is
\* caught by the outer catch (500)
QueryReply ==
    /\ genPc = "awaitQuery"
    /\ \E reply \in EmbeddingReplies :
        IF reply.kind = "error"
        THEN /\ genPc' = "done"
             /\ genResponse' = [status |-> 500, error |-> "fetch failed"]
             /\ UNCHANGED <<texts, genSentences, sentPhrases, phrases>>
        ELSE BuildPools(reply.results)
    /\ UNCHANGED <<embeddingUrl, genBody, genQuestions, attempts, sent, answer>>
    /\ UNCHANGED <<chunkVars, graderVars, extVars, upVars, mockVars, playerVars, pickVars>>

\* one iteration of the while loop, up to its await or to its end
GenIterate ==
    /\ genPc = "loop"
    /\ Len(genQuestions) < genBody.question_count
    /\ attempts < genBody.question_count * 6
    /\ attempts' = attempts + 1
    /\ \E i \in DOMAIN genSentences :
        /\ sent' = genSentences[i]
        /\ answer' = sentPhrases[i]
        /\ IF Len(sentPhrases[i]) < 2
           THEN UNCHANGED <<genPc, genQuestions>>
           ELSE IF embeddingUrl
                THEN /\ genPc' = "awaitCands"
                     /\ UNCHANGED genQuestions
                ELSE /\ genPc' = "loop"
                     /\ FinishQuestion(genSentences[i], sentPhrases[i], <<>>)
    /\ UNCHANGED <<embeddingUrl, genBody, texts, genSentences, sentPhrases, phrases, genResponse>>
    /\ UNCHANGED <<chunkVars, graderVars, extVars, upVars, mockVars, playerVars, pickVars>>

\* the embedding service settles the query for the candidates: a failure
\* leaves no distractors, a reply gives those pickFiltered keeps
CandsReply ==
    /\ genPc = "awaitCands"
    /\ \E reply \in EmbeddingReplies :
        IF reply.kind = "error"
        THEN FinishQuestion(sent, answer, <<>>)
        ELSE \E uniq \in Shuffles(CandUniq(reply.results, answer)) :
                 FinishQuestion(sent, answer,
                                pickFiltered(uniq, answer, DefaultMinSim, DefaultMaxSim))
    /\ genPc' = "loop"
    /\ UNCHANGED <<embeddingUrl, genBody, texts, genSentences, sentPhrases, phrases, attempts,
                   sent, answer, genResponse>>
    /\ UNCHANGED <<chunkVars, graderVars, extVars, upVars, mockVars, playerVars, pickVars>>

\* the loop has ended: 200 with the questions and a sample of the sentences
GenRespond ==
    /\ genPc = "loop"
    /\ ~(Len(genQuestions) < genBody.question_count /\ attempts < genBody.question_count * 6)
    /\ genPc' = "done"
    /\ genResponse' = [status |-> 200, ok |-> TRUE, questions |-> genQuestions,
                       sentences_sample |-> Take(genSentences, 5)]
    /\ UNCHANGED <<embeddingUrl, genBody, texts, genSentences, sentPhrases, phrases, genQuestions,
                   attempts, sent, answer>>
    /\ UNCHANGED <<chunkVars, graderVars, extVars, upVars, mockVars, playerVars, pickVars>>

InitGen ==
    /\ text = <<>>
    /\ chunkChars = 0
    /\ overlapChars = 0
    /\ sentences = <<>>
    /\ idx = 0
    /\ charPos = 0
    /\ chunks = <<>>
    /\ pc = "idle"
    /\ once = <<>>
    /\ twice = <<>>
    /\ GraderIdle
    /\ embeddingUrl \in BOOLEAN
    /\ genPc = "idle"
    /\ genBody = <<>>
    /\ texts = <<>>
    /\ genSentences = <<>>
    /\ sentPhrases = <<>>
    /\ phrases = <<>>
    /\ genQuestions = <<>>
    /\ attempts = 0
    /\ sent = <<>>
    /\ answer = <<>>
    /\ genResponse = <<>>
    /\ ExtIdle
    /\ UpIdle
    /\ MockIdle
    /\ PlayerIdle
    /\ PickIdle

NextGen == GenRequest \/ QueryReply \/ GenIterate \/ CandsReply \/ GenRespond

SpecGen == InitGen /\ [][NextGen]_vars

\* the requests served with EMBEDDING_SERVICE_URL set
InitGenOracle == InitGen /\ embeddingUrl

\* with the embedding service configured, the handler runs on when it can:
\* an iteration or the response that is ready is executed; a request need
\* not arrive, and nothing in the code makes a pending fetch settle
SpecGenFair ==
    InitGenOracle /\ [][NextGen]_vars /\ WF_vars(GenIterate) /\ WF_vars(GenRespond)

-----------------------------------------------------------------------------
(* Properties of the generated questions *)

\* the choices of q that are the phrase p up to case
SameUpToCase(q, p) == {i \in DOMAIN q.choices : toLowerCase(q.choices[i].text) = toLowerCase(p)}

\* C11: in every question of the generate-question handler one choice only
\* is the answer phrase up to case, and correct_choice_ids lists exactly
\* that choice
OneCorrectChoice ==
    \A n \in DOMAIN genQuestions :
        \E q \in {genQuestions[n]} :
            /\ Len(q.correct_choice_ids) = 1
            /\ Cardinality(SameUpToCase(q, q.choices[q.correct_choice_ids[1]].text)) = 1

\* C12: every question of the generate-question handler has exactly 4
\* choices, the answer and 3 distractors, and two choices have the same
\* text only if that text is the filler
ThreeDistractors ==
    \A n \in DOMAIN genQuestions :
        \E q \in {genQuestions[n]} :
            /\ Len(q.choices) = 4
            /\ \A i, j \in DOMAIN q.choices :
                   (i # j /\ q.choices[i].text = q.choices[j].text) => q.choices[i].text = Filler

\* C15: a generate-question request that has arrived eventually completes
\* with a response, whatever the embedding service does with the queries,
\* never answering included
RequestCompletes == (genPc # "idle") ~> (genPc = "done" /\ genResponse # <<>>)

-----------------------------------------------------------------------------
(* Sentences longer than the budget *)

\* C20: a sentence longer than chunkChars is a chunk of its own: a chunk
\* that contains such a sentence contains no other sentence
LongSentenceAlone ==
    \A k \in DOMAIN chunks :
        \A i \in chunks[k].startSentence..chunks[k].endSentence :
            Len(sentences[i + 1]) > chunkChars => chunks[k].startSentence = chunks[k].endSentence

-----------------------------------------------------------------------------
(* Empty and null input *)

\* the inputs that are empty or null
EmptyInputs == {Null, <<>>}

\* inputs to compare them with: white space only, a stopword, a content
\* word, both, and two sentences
OtherInputs ==
    { <<SP>>, WordThe, WordCat, Phrase(<<WordThe, WordCat>>), <<"a", ".", SP, "a", "b", "!">> }

InitEmpty ==
    /\ text \in EmptyInputs \cup OtherInputs
    /\ chunkChars = 0
    /\ overlapChars = 0
    /\ sentences = <<>>
    /\ idx = 0
    /\ charPos = 0
    /\ chunks = <<>>
    /\ pc = "idle"
    /\ once = <<>>
    /\ twice = <<>>
    /\ GraderIdle
    /\ RestIdle

\* after the chunker has returned: once = normalizeTextForExtraction(text)
EmptyNormalize ==
    /\ pc = "done"
    /\ once' = normalizeTextForExtraction(text)
    /\ pc' = "normalized"
    /\ UNCHANGED <<text, twice, chunkChars, overlapChars, sentences, idx, charPos, chunks,
                   graderVars, restVars>>

\* twice = splitIntoSentences(text)
EmptySplit ==
    /\ pc = "normalized"
    /\ twice' = splitIntoSentences(text)
    /\ pc' = "split"
    /\ UNCHANGED <<text, once, chunkChars, overlapChars, sentences, idx, charPos, chunks,
                   graderVars, restVars>>

\* semanticSimilarity(text, b) and semanticSimilarity(b, text)
EmptyCompare ==
    /\ pc = "split"
    /\ \E b \in EmptyInputs \cup OtherInputs :
        /\ simA' = text
        /\ simB' = b
        /\ simOut' = <<semanticSimilarity(text, b), semanticSimilarity(b, text)>>
    /\ pc' = "compared"
    /\ UNCHANGED <<text, once, twice, chunkChars, overlapChars, sentences, idx, charPos, chunks,
                   view, settings, quiz, submission, attemptResult, history, restVars>>

NextEmpty ==
    ChunkCall \/ ChunkStart \/ ChunkStep \/ ChunkReturn \/ EmptyNormalize \/ EmptySplit
    \/ EmptyCompare

SpecEmpty == InitEmpty /\ [][NextEmpty]_vars

\* the words of a text that is not null, stopwords included
Words(t) == FilterNonEmpty(SplitAtSpace(Trim(CollapseSpaces(ReplaceNonWord(toLowerCase(t)))), <<>>))

\* a text that is null, empty, or made of stopwords and punctuation only
NoToken(t) == t \in EmptyInputs \/ \A i \in DOMAIN Words(t) : Words(t)[i] \in stop

\* C13: on empty or null text the chunker returns no chunk,
\* normalizeTextForExtraction the empty string and splitIntoSentences no
\* sentence; semanticSimilarity is 0 when an argument is empty, null or
\* without a token that is not a stopword
NeutralOnEmpty ==
    /\ (text \in EmptyInputs /\ pc \in {"done", "normalized", "split", "compared"}) => chunks = <<>>
    /\ (text \in EmptyInputs /\ pc \in {"normalized", "split", "compared"}) => once = <<>>
    /\ (text \in EmptyInputs /\ pc \in {"split", "compared"}) => twice = <<>>
    /\ (pc = "compared" /\ (NoToken(simA) \/ NoToken(simB))) => simOut = <<Zero, Zero>>

\* null went through the four functions and was compared with a stopword
NeutralOnEmptyWitness ==
    /\ pc = "compared"
    /\ text = Null
    /\ chunks = <<>>
    /\ once = <<>>
    /\ twice = <<>>
    /\ simB = WordThe
    /\ simOut = <<Zero, Zero>>

-----------------------------------------------------------------------------
(* The extract route handler *)

\* whether the characters of sep stand at the head of s
StartsWith(s, sep) == Len(s) >= Len(sep) /\ SubSeq(s, 1, Len(sep)) = sep

\* s.split(sep) for a separator of one character or more
RECURSIVE SplitBy(_, _, _)
SplitBy(s, sep, cur) ==
    IF s = <<>> THEN <<cur>>
    ELSE IF StartsWith(s, sep) THEN <<cur>> \o SplitBy(SubSeq(s, Len(sep) + 1, Len(s)), sep, <<>>)
    ELSE SplitBy(Tail(s), sep, Append(cur, Head(s)))

\* txt.split(sep).filter(Boolean).map(p => p.trim())
PagesOf(txt, sep) ==
    LET parts == FilterNonEmpty(SplitBy(txt, sep, <<>>))
    IN  [i \in DOMAIN parts |-> Trim(parts[i])]

FF == "\f"

\* what extractTextGeneric returns for a file: a PDF goes through pdf-parse,
\* which gives the text or throws; any other file here is read as plain text
extractTextGeneric(f, parsed) ==
    IF f.type = "application/pdf"
    THEN IF parsed
         THEN [text |-> f.content, pages |-> PagesOf(f.content, <<FF>>), error |-> FALSE]
         ELSE [text |-> <<>>, pages |-> <<>>, error |-> TRUE]
    ELSE [text |-> f.content, pages |-> PagesOf(f.content, <<LF, LF>>), error |-> FALSE]

\* p.split('\n').map(l => l.trim())
LinesOf(p) ==
    LET ls == SplitBy(p, <<LF>>, <<>>)
    IN  [i \in DOMAIN ls |-> Trim(ls[i])]

\* the first line of a page that is not blank, '' when there is none
FirstLine(p) ==
    LET ls == FilterNonEmpty(LinesOf(p))
    IN  IF Len(ls) = 0 THEN <<>> ELSE ls[1]

\* the last line of a page that is not blank, '' when there is none
LastLine(p) ==
    LET ls == FilterNonEmpty(LinesOf(p))
    IN  IF Len(ls) = 0 THEN <<>> ELSE ls[Len(ls)]

\* the lines counted more than once among the first and last lines
Repeats(pages) ==
    LET all == [i \in 1..(2 * Len(pages)) |->
                   IF i <= Len(pages) THEN FirstLine(pages[i]) ELSE LastLine(pages[i - Len(pages)])]
    IN  {l \in SetOf(all) : l # <<>> /\ Cardinality({i \in DOMAIN all : all[i] = l}) > 1}

removeHeadersFootersFromPages(pages) ==
    IF Len(pages) <= 1 THEN pages
    ELSE LET repeats == Repeats(pages)
         IN  [i \in DOMAIN pages |->
                 IF pages[i] = <<>> THEN pages[i]
                 ELSE Join(SelectSeq(LinesOf(pages[i]), LAMBDA l : l \notin repeats), <<LF>>)]

DefaultChunkChars == 3000

DefaultOverlapChars == 500

\* the outer loop of chunkIntoSemanticChunks, from cursor i and position cp
RECURSIVE ChunkLoop(_, _, _, _, _, _)
ChunkLoop(sents, i, cp, acc, cc, oc) ==
    IF i >= Len(sents) THEN acc
    ELSE LET filled == FillParts(sents, i, 0, 0, cc)
             idx1 == filled[1]
             chunkText == Join(Slice(sents, i + 1, idx1), <<SP>>)
             endChar == EndChar(cp, chunkText, filled[2])
             chunk == [ id |-> ChunkId(cp, endChar),
                        text |-> chunkText,
                        startSentence |-> i,
                        endSentence |-> idx1 - 1,
                        startChar |-> cp,
                        endChar |-> endChar ]
         IN  IF idx1 < Len(sents)
             THEN ChunkLoop(sents, NewIdx(i, Backtrack(sents, idx1 - 1, 0, i, oc)),
                            OverlapCharPos(cp, chunkText, oc), Append(acc, chunk), cc, oc)
             ELSE Append(acc, chunk)

\* chunkText(t): chunkIntoSemanticChunks with its default budget and overlap
chunkText(t) ==
    LET normalized == normalizeTextForExtraction(OrEmpty(t))
    IN  IF normalized = <<>> THEN <<>>
        ELSE ChunkLoop(splitIntoSentences(normalized), 0, 0, <<>>,
                       DefaultChunkChars, DefaultOverlapChars)

\* the entry of `results` for a file
FileResult(f, parsed) ==
    LET r == extractTextGeneric(f, parsed)
        pages == removeHeadersFootersFromPages(r.pages)
        textForChunking == IF Len(pages) > 0 THEN Join(pages, <<LF, LF>>) ELSE r.text
    IN  [name |-> f.name, type |-> f.type, size |-> Len(f.content), extracted |-> r,
         pages |-> pages, chunks |-> chunkText(textForChunking)]

\* results, combined and combinedChunks
ExtractWork(files, parsed) ==
    LET results == [i \in DOMAIN files |-> FileResult(files[i], parsed[i])]
        combined == Join([i \in DOMAIN results |-> results[i].extracted.text], <<LF, LF>>)
    IN  [files |-> results, combinedText |-> combined, combinedChunks |-> chunkText(combined)]

\* embedResp = null, a record like the replies of the service
NoEmbedding == [null |-> TRUE]

\* the 200 response
ExtractOk(work, embedResp) ==
    [status |-> 200, ok |-> TRUE, files |-> work.files, combinedText |-> work.combinedText,
     combinedChunks |-> work.combinedChunks, embedding |-> embedResp]

\* a slip: the encode request outside the inner try, a failure reaches the
\* outer catch
EncodeFailedUncaught(work) == [status |-> 500, error |-> "fetch failed"]

\* the inner catch: the failure is kept in the embedding field
EncodeFailed(work) == ExtractOk(work, [error |-> "fetch failed"])

\* a header on every page, two sentences
TextPaged ==
    << "T", LF, "a", "b", ".", SP, "c", "!", LF, LF, "T", LF, "d", "." >>

\* a line break inside a word
TextHyphen == << "a", "-", LF, "b", "." >>

\* two pages of a PDF
TextPdf == << "a", ".", FF, "b", "." >>

ExtractFiles ==
    { [name |-> <<"a", ".", "t", "x", "t">>, type |-> "text/plain", content |-> TextPaged],
      [name |-> <<"b", ".", "t", "x", "t">>, type |-> "text/plain", content |-> TextHyphen],
      [name |-> <<"c", ".", "t", "x", "t">>, type |-> "text/plain", content |-> <<>>],
      [name |-> <<"d", ".", "p", "d", "f">>, type |-> "application/pdf", content |-> TextPdf] }

\* the requests: at most MaxFiles files
MaxFiles == 2

ExtractRequests == SeqsUpTo(ExtractFiles, MaxFiles)

\* what the embedding service can do with the encode request
EncodeOutcomes == {"json", "not json", "connection error"}

\* POST /api/extract arrives; the handler runs up to the encode request
ExtractRequest ==
    /\ extPc = "idle"
    /\ \E files \in ExtractRequests :
        /\ extFiles' = files
        /\ IF Len(files) = 0
           THEN /\ extPc' = "done"
                /\ extWork' = <<>>
                /\ extResponse' = [status |-> 400, error |-> "no file uploaded"]
           ELSE \E parsed \in [DOMAIN files -> BOOLEAN] :
                \E work \in {ExtractWork(files, parsed)} :
                    /\ extWork' = work
                    /\ IF embeddingUrl
                       THEN /\ extPc' = "awaitEncode"
                            /\ extResponse' = <<>>
                       ELSE /\ extPc' = "done"
                            /\ extResponse' = ExtractOk(work, NoEmbedding)
    /\ UNCHANGED <<chunkVars, graderVars, genVars, upVars, mockVars, playerVars, pickVars>>

\* the encode request settles
EncodeReply ==
    /\ extPc = "awaitEncode"
    /\ \E outcome \in EncodeOutcomes :
        extResponse' = IF outcome = "json"
                       THEN ExtractOk(extWork, [indexed |-> Len(extWork.combinedChunks)])
                       ELSE EncodeFailed(extWork)
    /\ extPc' = "done"
    /\ UNCHANGED <<extFiles, extWork>>
    /\ UNCHANGED <<chunkVars, graderVars, genVars, upVars, mockVars, playerVars, pickVars>>

InitExtract ==
    /\ text = <<>>
    /\ chunkChars = 0
    /\ overlapChars = 0
    /\ sentences = <<>>
    /\ idx = 0
    /\ charPos = 0
    /\ chunks = <<>>
    /\ pc = "idle"
    /\ once = <<>>
    /\ twice = <<>>
    /\ GraderIdle
    /\ embeddingUrl \in BOOLEAN
    /\ genPc = "idle"
    /\ genBody = <<>>
    /\ texts = <<>>
    /\ genSentences = <<>>
    /\ sentPhrases = <<>>
    /\ phrases = <<>>
    /\ genQuestions = <<>>
    /\ attempts = 0
    /\ sent = <<>>
    /\ answer = <<>>
    /\ genResponse = <<>>
    /\ ExtIdle
    /\ UpIdle
    /\ MockIdle
    /\ PlayerIdle
    /\ PickIdle

NextExtract == ExtractRequest \/ EncodeReply

SpecExtract == InitExtract /\ [][NextExtract]_vars

\* C14: an extract request with at least one file is answered with status
\* 200, the chunks of every file and the chunks of the combined text,
\* whatever the embedding service did with the encode request
ExtractSucceeds ==
    (extPc = "done" /\ Len(extFiles) > 0) =>
        /\ extResponse.status = 200
        /\ extResponse.combinedChunks = chunkText(extResponse.combinedText)
        /\ Len(extResponse.files) = Len(extFiles)
        /\ \A i \in DOMAIN extFiles :
               \E r \in {extResponse.files[i]} :
                   /\ r.name = extFiles[i].name
                   /\ r.chunks = chunkText(IF Len(r.pages) > 0 THEN Join(r.pages, <<LF, LF>>)
                                                                ELSE r.extracted.text)

\* the encode request failed, and the response has the chunks of a file
\* with a repeated header and of a PDF that was read
ExtractSucceedsWitness ==
    /\ extPc = "done"
    /\ embeddingUrl
    /\ extResponse.status = 200
    /\ extResponse.embedding = [error |-> "fetch failed"]
    /\ Len(extFiles) = 2
    /\ extFiles[1].content = TextPaged
    /\ Len(extResponse.files[1].chunks) = 1
    /\ extResponse.files[1].chunks[1].text = <<"a", "b", ".", SP, "c", "!", SP, "d", ".">>
    /\ extFiles[2].content = TextPdf
    /\ extResponse.files[2].extracted.text = TextPdf
    /\ Len(extResponse.combinedChunks) = 1

\* the pages that have l as their first or their last non-blank line
PagesEdgedBy(pages, l) ==
    {j \in DOMAIN pages : FirstLine(pages[j]) = l \/ LastLine(pages[j]) = l}

\* C23: of a file of two pages or more, a line is missing from a page of
\* the response only if it is the first or last non-blank line of two
\* pages or more
OnlyRepeatedLinesRemoved ==
    (extPc = "done" /\ Len(extFiles) > 0) =>
        \A i \in DOMAIN extResponse.files :
            \E before \in {extResponse.files[i].extracted.pages},
               after \in {extResponse.files[i].pages} :
                Len(before) >= 2 =>
                    \A k \in DOMAIN before :
                        \A l \in SetOf(LinesOf(before[k])) \ SetOf(LinesOf(after[k])) :
                            Cardinality(PagesEdgedBy(before, l)) >= 2

-----------------------------------------------------------------------------
(* DocumentUploadPage.handleProcess, app/page.tsx *)

\* selectedFiles.slice(0, useFileCount || 1)
FilesToUse == Take(selectedFiles, IF useFileCount = 0 THEN 1 ELSE useFileCount)

\* `File: ${f.name}`
FileHint(f) == <<"F", "i", "l", "e", ":", " ">> \o f.name

\* what the loop pushes to `parts` for a file; readOk tells whether pdf.js
\* or f.text() gave the content
FilePart(f, readOk) ==
    IF f.type = "application/pdf"
    THEN IF readOk /\ Len(Trim(f.content)) > 20 THEN Take(f.content, 5000) ELSE FileHint(f)
    ELSE IF readOk /\ Len(Trim(f.content)) > 0 THEN Take(f.content, 5000) ELSE FileHint(f)

\* Math.min(30, Math.max(1, Math.round(size / 10240)))
PageEstimate(size) == Min(30, Max(1, (2 * size + 10240) \div 20480))

RECURSIVE SumOf(_)
SumOf(ns) == IF Len(ns) = 0 THEN 0 ELSE Head(ns) + SumOf(Tail(ns))

BaseMetadata(files, readOk) ==
    [document_id |-> "uuid",
     filename |-> IF Len(files) = 1 THEN files[1].name
                  ELSE NumberToString(Len(files)) \o <<" ", "f", "i", "l", "e", "s", " ", "u", "p", "l", "o", "a", "d", "e", "d">>,
     content_type |-> IF Len(files) = 1 THEN files[1].type ELSE "multipart/mixed",
     page_count |-> SumOf([i \in DOMAIN files |-> PageEstimate(Len(files[i].content))]),
     size_bytes |-> SumOf([i \in DOMAIN files |-> Len(files[i].content)]),
     uploaded_by |-> "user_123",
     text_extracted |-> Join([i \in DOMAIN files |-> FilePart(files[i], readOk[i])], <<LF, LF>>),
     files |-> [i \in DOMAIN files |->
                   [name |-> files[i].name, size |-> Len(files[i].content), type |-> files[i].type]]]

\* { ...baseMetadata, extractResponse: data, chunks: data.combinedChunks }
Merged(base, data) ==
    [document_id |-> base.document_id, filename |-> base.filename,
     content_type |-> base.content_type, page_count |-> base.page_count,
     size_bytes |-> base.size_bytes, uploaded_by |-> base.uploaded_by,
     text_extracted |-> base.text_extracted, files |-> base.files,
     extractResponse |-> data, chunks |-> data.combinedChunks]

\* a slip: no return after the call with the merged metadata
CallsOnOkFallThrough(base, data) == <<Merged(base, data), base>>

\* the calls of onUploadSuccess when the response is OK and its body JSON
CallsOnOk(base, data) == <<Merged(base, data)>>

\* how the POST to /api/extract can settle
UploadOutcomes == {"ok json", "ok not json", "not ok", "network error"}

\* the 200 responses of the extract route for the files
ExtractResponses(files) ==
    {ExtractOk(ExtractWork(files, parsed), embedResp) :
         parsed \in [DOMAIN files -> BOOLEAN],
         embedResp \in {NoEmbedding, [error |-> "fetch failed"]}}

\* the selections: files that differ in name or size
Selections ==
    {fs \in SeqsUpTo(ExtractFiles, MaxFiles) : \A i, j \in DOMAIN fs : fs[i] = fs[j] => i = j}

InitUpload ==
    /\ text = <<>>
    /\ chunkChars = 0
    /\ overlapChars = 0
    /\ sentences = <<>>
    /\ idx = 0
    /\ charPos = 0
    /\ chunks = <<>>
    /\ pc = "idle"
    /\ once = <<>>
    /\ twice = <<>>
    /\ GraderIdle
    /\ GenIdle
    /\ ExtIdle
    /\ selectedFiles \in Selections
    /\ useFileCount \in 1..Max(1, Len(selectedFiles))
    /\ uploading = FALSE
    /\ upPc = "idle"
    /\ baseMetadata = <<>>
    /\ extractOutcome = <<>>
    /\ uploadCalls = <<>>
    /\ documentMeta = <<>>
    /\ MockIdle
    /\ PlayerIdle
    /\ PickIdle

\* the button Process, enabled with a selection and while not uploading
handleProcess ==
    /\ upPc = "idle"
    /\ ~uploading
    /\ Len(selectedFiles) > 0
    /\ uploading' = TRUE
    /\ upPc' = "timer"
    /\ UNCHANGED <<selectedFiles, useFileCount, baseMetadata, extractOutcome, uploadCalls,
                   documentMeta>>
    /\ UNCHANGED <<chunkVars, graderVars, genVars, extVars, mockVars, playerVars, pickVars>>

\* the timer fires: the files are read, baseMetadata is built and the
\* files are posted to /api/extract
ProcessFiles ==
    /\ upPc = "timer"
    /\ \E readOk \in [DOMAIN FilesToUse -> BOOLEAN] :
        baseMetadata' = BaseMetadata(FilesToUse, readOk)
    /\ upPc' = "awaitExtract"
    /\ UNCHANGED <<selectedFiles, useFileCount, uploading, extractOutcome, uploadCalls,
                   documentMeta>>
    /\ UNCHANGED <<chunkVars, graderVars, genVars, extVars, mockVars, playerVars, pickVars>>

\* the POST settles; every call of onUploadSuccess sets documentMeta and
\* the view of the app
ExtractSettles ==
    /\ upPc = "awaitExtract"
    /\ \E outcome \in UploadOutcomes :
        /\ extractOutcome' = outcome
        /\ \E calls \in IF outcome = "ok json"
                         THEN {CallsOnOk(baseMetadata, data) : data \in ExtractResponses(FilesToUse)}
                         ELSE {<<baseMetadata>>} :
            /\ uploadCalls' = uploadCalls \o calls
            /\ documentMeta' = calls[Len(calls)]
    /\ uploading' = FALSE
    /\ view' = "confirm"
    /\ upPc' = "done"
    /\ UNCHANGED <<selectedFiles, useFileCount, baseMetadata>>
    /\ UNCHANGED <<chunkVars, simA, simB, simOut, settings, quiz, submission, attemptResult,
                   history, genVars, extVars, mockVars, playerVars, pickVars>>

NextUpload == handleProcess \/ ProcessFiles \/ ExtractSettles

SpecUpload == InitUpload /\ [][NextUpload]_vars

\* C16: once the POST to /api/extract has settled, uploading is false and
\* onUploadSuccess was called exactly once, with the metadata merged with
\* the response when it was OK with a JSON body, with the local metadata
\* otherwise; before that it was not called
UploadEndsOnce ==
    /\ upPc # "done" => uploadCalls = <<>>
    /\ upPc = "done" =>
           /\ ~uploading
           /\ Len(uploadCalls) = 1
           /\ IF extractOutcome = "ok json"
              THEN \E data \in ExtractResponses(FilesToUse) :
                       uploadCalls[1] = Merged(baseMetadata, data)
              ELSE uploadCalls[1] = baseMetadata

\* two files were posted, the body of the OK response was not JSON, and
\* the app got the local metadata
UploadEndsOnceWitness ==
    /\ upPc = "done"
    /\ extractOutcome = "ok not json"
    /\ Len(FilesToUse) = 2
    /\ ~uploading
    /\ uploadCalls = <<baseMetadata>>
    /\ documentMeta = baseMetadata
    /\ view = "confirm"

-----------------------------------------------------------------------------
(* generateMockQuiz, app/page.tsx *)

\* text.split(/(?<=[\.\?\!])\s+/): the text is cut at every run of white
\* space that follows a terminal character
RECURSIVE SplitAfterTerminal(_, _)
SplitAfterTerminal(s, cur) ==
    IF s = <<>> THEN <<cur>>
    ELSE IF cur # <<>> /\ IsTerminal(cur[Len(cur)]) /\ IsSpace(Head(s))
         THEN <<cur>> \o SplitAfterTerminal(TrimStart(s), <<>>)
         ELSE SplitAfterTerminal(Tail(s), Append(cur, Head(s)))

\* const sentences: the pieces of more than 20 characters
MockSentences(t) == SelectSeq(SplitAfterTerminal(t, <<>>), LAMBDA x : Len(Trim(x)) > 20)

\* docMetadata.text_extracted, '' when there is none
MetaText(meta) == IF "text_extracted" \in DOMAIN meta THEN meta.text_extracted ELSE <<>>

\* docMetadata.files, [] when there is none
MetaFiles(meta) == IF "files" \in DOMAIN meta THEN meta.files ELSE <<>>

\* the text has more than 20 characters and no sentence of more than 20:
\* sentences[i % sentences.length] is undefined and .replace throws
TextBranchThrows(meta) ==
    Len(Trim(MetaText(meta))) > 20 /\ Len(MockSentences(MetaText(meta))) = 0

PromptText ==
    << "A", "c", "c", "o", "r", "d", "i", "n", "g", " ", "t", "o", " ", "t",
       "h", "e", " ", "d", "o", "c", "u", "m", "e", "n", "t", ":", " " >>

AnotherDistractor ==
    << "A", "n", "o", "t", "h", "e", "r", " ", "d", "i", "s", "t", "r", "a",
       "c", "t", "o", "r" >>

UploadedDocument ==
    << "U", "p", "l", "o", "a", "d", "e", "d", " ", "D", "o", "c", "u", "m",
       "e", "n", "t" >>

\* the single-choice question of a sentence
TextQuestion(meta, sentence) ==
    LET base == Trim(CollapseSpaces(sentence))
    IN  [type |-> "single",
         prompt |-> PromptText \o base,
         choices |-> <<Take(base, 60), Filler, AnotherDistractor>>,
         match_pairs |-> <<>>,
         correct_choice_ids |-> <<>>,
         correct_written_answers |-> <<>>,
         points |-> 1,
         topics |-> <<IF Len(MetaFiles(meta)) > 0 /\ MetaFiles(meta)[1].name # <<>>
                      THEN MetaFiles(meta)[1].name ELSE UploadedDocument>>]

\* the questions of the text branch, when it does not throw
TextQuestions(meta, desired, types) ==
    LET ss == MockSentences(MetaText(meta))
    IN  IF Len(Trim(MetaText(meta))) > 20 /\ "single" \in types
        THEN [i \in 1..Min(desired, Max(1, Len(ss))) |->
                 TextQuestion(meta, ss[((i - 1) % Len(ss)) + 1])]
        ELSE <<>>

SummarizePrompt ==
    << "S", "u", "m", "m", "a", "r", "i", "z", "e", " ", "t", "h", "e", " ",
       "m", "a", "i", "n", " ", "p", "o", "i", "n", "t", " ", "f", "r", "o",
       "m", " " >>

InOneSentence ==
    << " ", "i", "n", " ", "o", "n", "e", " ", "s", "e", "n", "t", "e", "n",
       "c", "e", "." >>

WrittenQuestion(title) ==
    [type |-> "written",
     prompt |-> SummarizePrompt \o title \o InOneSentence,
     choices |-> <<>>,
     match_pairs |-> <<>>,
     correct_choice_ids |-> <<>>,
     correct_written_answers |-> <<>>,
     points |-> 2,
     topics |-> <<title>>]

MatchPrompt ==
    << "M", "a", "t", "c", "h", " ", "t", "h", "e", " ", "i", "t", "e", "m",
       "s", " ", "m", "e", "n", "t", "i", "o", "n", "e", "d", " ", "i", "n",
       " " >>

MatchQuestion(title) ==
    [type |-> "match",
     prompt |-> MatchPrompt \o title \o <<".">>,
     choices |-> <<>>,
     match_pairs |-> <<[left |-> "Item A", right |-> "Answer 1"],
                       [left |-> "Item B", right |-> "Answer 2"]>>,
     correct_choice_ids |-> <<>>,
     correct_written_answers |-> <<>>,
     points |-> 2,
     topics |-> <<title>>]

\* f.name || `File ${i + 1}`
FileTitle(f, i) ==
    IF f.name # <<>> THEN f.name ELSE <<"F", "i", "l", "e", " ">> \o NumberToString(i + 1)

\* the loop of the file branch from index i (0-based)
RECURSIVE FileQuestions(_, _, _, _, _)
FileQuestions(files, i, desired, types, qs) ==
    IF ~(i < desired /\ i < Len(files)) THEN qs
    ELSE LET title == FileTitle(files[i + 1], i)
             q1 == IF "written" \in types /\ Len(qs) < desired
                   THEN Append(qs, WrittenQuestion(title)) ELSE qs
             q2 == IF "match" \in types /\ Len(q1) < desired
                   THEN Append(q1, MatchQuestion(title)) ELSE q1
         IN  FileQuestions(files, i + 1, desired, types, q2)

General == <<"G", "e", "n", "e", "r", "a", "l">>

MostRelevantPrompt ==
    << "W", "h", "i", "c", "h", " ", "o", "p", "t", "i", "o", "n", " ", "i",
       "s", " ", "m", "o", "s", "t", " ", "r", "e", "l", "e", "v", "a", "n",
       "t", "?" >>

KeyConceptPrompt ==
    << "I", "n", " ", "o", "n", "e", " ", "s", "e", "n", "t", "e", "n", "c",
       "e", ",", " ", "e", "x", "p", "l", "a", "i", "n", " ", "a", " ", "k",
       "e", "y", " ", "c", "o", "n", "c", "e", "p", "t", " ", "f", "r", "o",
       "m", " ", "t", "h", "e", " ", "m", "a", "t", "e", "r", "i", "a", "l",
       "." >>

\* const fallbackPool
fallbackPool ==
    << [type |-> "single",
        prompt |-> MostRelevantPrompt,
        choices |-> << <<"O", "p", "t", "i", "o", "n", " ", "A">>,
                       <<"O", "p", "t", "i", "o", "n", " ", "B">> >>,
        match_pairs |-> <<>>,
        correct_choice_ids |-> <<>>,
        correct_written_answers |-> <<>>,
        points |-> 1,
        topics |-> <<General>>],
       [type |-> "written",
        prompt |-> KeyConceptPrompt,
        choices |-> <<>>,
        match_pairs |-> <<>>,
        correct_choice_ids |-> <<>>,
        correct_written_answers |-> <<>>,
        points |-> 2,
        topics |-> <<General>>] >>

\* the question types of the settings page
QuestionTypes == {"single", "multiple", "written", "match"}

\* the largest question_count of the settings tried
MaxCount == 3

\* { document_id: 'doc_0', filename: 'Unknown' }, for documentMeta null
UnknownDocument ==
    [document_id |-> "doc_0", filename |-> <<"U", "n", "k", "n", "o", "w", "n">>]

\* the metadata the upload page can hand over
LocalMetas ==
    {BaseMetadata(Take(fs, n), readOk) :
         fs \in Selections \ {<<>>}, n \in 1..MaxFiles, readOk \in [1..MaxFiles -> BOOLEAN]}

InitMock ==
    /\ text = <<>>
    /\ chunkChars = 0
    /\ overlapChars = 0
    /\ sentences = <<>>
    /\ idx = 0
    /\ charPos = 0
    /\ chunks = <<>>
    /\ pc = "idle"
    /\ once = <<>>
    /\ twice = <<>>
    /\ GraderIdle
    /\ GenIdle
    /\ ExtIdle
    /\ PlayerIdle
    /\ PickIdle
    /\ selectedFiles = <<>>
    /\ useFileCount = 1
    /\ uploading = FALSE
    /\ upPc = "idle"
    /\ baseMetadata = <<>>
    /\ extractOutcome = <<>>
    /\ uploadCalls = <<>>
    /\ documentMeta \in {<<>>} \cup LocalMetas
    /\ mockPc = "idle"
    /\ mockSettings \in [question_count : 1..MaxCount, types : SUBSET QuestionTypes]
    /\ mockQuestions = <<>>
    /\ mockIdx = 0
    /\ mockQuiz = <<>>

\* docMetadata, the first argument of the call
DocMetadata == IF documentMeta = <<>> THEN UnknownDocument ELSE documentMeta

\* generateMockQuiz is called: the text branch and the file branch
MockCall ==
    /\ mockPc = "idle"
    /\ IF TextBranchThrows(DocMetadata)
       THEN /\ mockPc' = "threw"
            /\ UNCHANGED mockQuestions
       ELSE /\ mockPc' = "fallback"
            /\ \E desired \in {mockSettings.question_count} :
               \E qs \in {TextQuestions(DocMetadata, desired, mockSettings.types)} :
                   mockQuestions' =
                       IF Len(qs) < desired /\ Len(MetaFiles(DocMetadata)) > 0
                       THEN FileQuestions(MetaFiles(DocMetadata), 0, desired, mockSettings.types, qs)
                       ELSE qs
    /\ UNCHANGED <<mockSettings, mockIdx, mockQuiz>>
    /\ UNCHANGED <<chunkVars, graderVars, genVars, extVars, upVars, playerVars, pickVars>>

\* one iteration of while (questions.length < desired); of idx only
\* idx % fallbackPool.length is read
MockFallback ==
    /\ mockPc = "fallback"
    /\ Len(mockQuestions) < mockSettings.question_count
    /\ \E f \in {fallbackPool[mockIdx + 1]} :
        mockQuestions' = IF f.type \in mockSettings.types
                         THEN Append(mockQuestions, f) ELSE mockQuestions
    /\ mockIdx' = (mockIdx + 1) % Len(fallbackPool)
    /\ UNCHANGED <<mockPc, mockSettings, mockQuiz>>
    /\ UNCHANGED <<chunkVars, graderVars, genVars, extVars, upVars, playerVars, pickVars>>

\* the loop has ended: the quiz is returned
MockReturn ==
    /\ mockPc = "fallback"
    /\ Len(mockQuestions) >= mockSettings.question_count
    /\ \E finalQuestions \in {Take(mockQuestions, mockSettings.question_count)} :
        mockQuiz' = [document_id |-> DocMetadata.document_id,
                     question_count |-> mockSettings.question_count,
                     total_points |->
                         SumOf([i \in DOMAIN finalQuestions |-> finalQuestions[i].points]),
                     questions |-> finalQuestions]
    /\ mockPc' = "returned"
    /\ UNCHANGED <<mockSettings, mockQuestions, mockIdx>>
    /\ UNCHANGED <<chunkVars, graderVars, genVars, extVars, upVars, playerVars, pickVars>>

NextMock == MockCall \/ MockFallback \/ MockReturn

SpecMock == InitMock /\ [][NextMock]_vars

\* the function is sequential code: once called, its loop and its return
\* run as long as they can
SpecMockFair == SpecMock /\ WF_vars(MockFallback) /\ WF_vars(MockReturn)

\* C17: a call of generateMockQuiz that has reached the fallback loop
\* returns a quiz
MockQuizReturns == (mockPc = "fallback") ~> (mockPc = "returned")

\* the quiz returned has question_count questions of the types of the
\* settings, and total_points is the sum of their points
MockQuizShape ==
    mockPc = "returned" =>
        /\ Len(mockQuiz.questions) = mockSettings.question_count
        /\ \A i \in DOMAIN mockQuiz.questions : mockQuiz.questions[i].type \in mockSettings.types
        /\ mockQuiz.total_points =
               SumOf([i \in DOMAIN mockQuiz.questions |-> mockQuiz.questions[i].points])

\* generateMockQuiz does not throw
MockNeverThrows == mockPc # "threw"

-----------------------------------------------------------------------------
(* QuizPlayer, app/page.tsx: answering, navigating, timing, submitting *)

\* the literal 1000 of `time_limit_seconds * 1000` and of `(now - qStart) / 1000`
MsPerSecond == 1000

\* the literal 500 of setInterval(check, 500); the clock of the model
\* advances by this much at a time
PollMs == 500

\* how many times the clock advances while the quiz is played
MaxTicks == 3

\* the entry a question without an entry stands for: every consumer reads
\* the fields of an entry with `|| []`, `|| ""`, `|| 0`, so a field that is
\* absent is shown by that default.  time_spent_seconds is kept in
\* thousandths of a second
NoAnswer(qid) ==
    [ question_id |-> qid, selected_choice_ids |-> <<>>, written_answer |-> <<>>,
      match_pairs |-> <<>>, time_spent_seconds |-> 0 ]

\* the positions of the key qid in the object obj (its entries in insertion order)
EntryAt(obj, qid) == {i \in 1..Len(obj) : obj[i].question_id = qid}

\* obj[qid] || {}
Entry(obj, qid) ==
    IF EntryAt(obj, qid) = {} THEN NoAnswer(qid)
    ELSE obj[CHOOSE i \in EntryAt(obj, qid) : TRUE]

\* { ...obj, [e.question_id]: e }
Put(obj, e) ==
    IF EntryAt(obj, e.question_id) = {} THEN Append(obj, e)
    ELSE [i \in DOMAIN obj |-> IF obj[i].question_id = e.question_id THEN e ELSE obj[i]]

\* { ...entry, ...data } for a data of one field
Merge(entry, data) == [entry EXCEPT ![data.field] = data.value]

\* the question on display
currentQ == quiz.questions[currentIndex + 1]

\* the `data` the inputs of a question can hand to updateAnswer, ans being
\* the entry of the question in the state `answers`
Edits(question, ans) ==
    CASE question.type = "single" ->
           {[field |-> "selected_choice_ids", value |-> <<c>>] : c \in {"c1", "c2"}}
      [] question.type = "multiple" ->
           {[field |-> "selected_choice_ids",
             value |-> IF \E i \in DOMAIN ans.selected_choice_ids :
                              ans.selected_choice_ids[i] = c
                       THEN SelectSeq(ans.selected_choice_ids, LAMBDA id : id # c)
                       ELSE Append(ans.selected_choice_ids, c)] : c \in {"c1", "c3"}}
      [] question.type = "written" ->
           {[field |-> "written_answer", value |-> w] : w \in {<<>>, WordCat}}
      [] question.type = "match" ->
           {[field |-> "match_pairs",
             value |-> Append(SelectSeq(ans.match_pairs, LAMBDA p : p.left # l),
                              [left |-> l, right |-> r])] :
                l \in {question.match_pairs[i].left : i \in DOMAIN question.match_pairs},
                r \in {question.match_pairs[i].right : i \in DOMAIN question.match_pairs}}

\* settings.time_limit_seconds * 1000
limitMsFromMinutes(seconds) == seconds * 60 * MsPerSecond

limitMs(seconds) == seconds * MsPerSecond

\* a quiz as acceptPreviewAsQuiz builds it
QuizOf(questions) == [questions |-> questions, total_points |-> SumPoints(questions)]

\* the quizzes played
PlayerQuizzes ==
    { QuizOf(<<QuestionBank[8]>>),
      QuizOf(<<QuestionBank[5]>>),
      QuizOf(<<QuestionBank[7], QuestionBank[6]>>) }

\* settings.time_limit_seconds: null (0), or a number of seconds
TimeLimits == {0, 1, 2}

\* the AttemptResult handleQuizFinish builds from what forEach has gathered
ResultFrom(graded) ==
    [ score |-> graded.score,
      total_points |-> quiz.total_points,
      per_question |-> graded.perQuestion,
      passed |-> Passed(graded.score, quiz.total_points, settings.passing_score),
      meta |-> [passing_score |-> MetaPassingScore(settings.passing_score)],
      topics_covered |-> graded.topicStats ]

\* the AttemptResult of handleQuizFinish(submission), sub being submission.answers
ResultOf(sub) ==
    ResultFrom(GradeFrom(quiz.questions, sub, 1,
                         [score |-> 0, perQuestion |-> <<>>, topicStats |-> <<>>]))

\* setAttemptResult(result); setHistory(prev => [...prev, result]); setView('result')
Finished(sub, result) ==
    /\ submission' = sub
    /\ attemptResult' = result
    /\ history' = Append(history, result)
    /\ view' = "result"

\* the quiz player has been rendered for a quiz; its effects have not run
InitPlayer ==
    /\ text = <<>>
    /\ chunkChars = 0
    /\ overlapChars = 0
    /\ sentences = <<>>
    /\ idx = 0
    /\ charPos = 0
    /\ chunks = <<>>
    /\ pc = "idle"
    /\ once = <<>>
    /\ twice = <<>>
    /\ simA = <<>>
    /\ simB = <<>>
    /\ simOut = <<>>
    /\ view = "quiz"
    /\ settings \in {[passing_score |-> <<DefaultPassingScore>>, time_limit_seconds |-> s] :
                       s \in TimeLimits}
    /\ quiz \in PlayerQuizzes
    /\ submission = <<>>
    /\ attemptResult = <<>>
    /\ history = <<>>
    /\ GenIdle
    /\ ExtIdle
    /\ UpIdle
    /\ MockIdle
    /\ PickIdle
    /\ now = PollMs
    /\ currentIndex = 0
    /\ answersState = <<>>
    /\ answersRef = <<>>
    /\ startTime = 0
    /\ questionStart = 0
    /\ submittedRef = FALSE
    /\ finishCalls = <<>>
    /\ entered = [i \in DOMAIN quiz.questions |-> NoAnswer(quiz.questions[i].question_id)]
    /\ timeOn = [i \in DOMAIN quiz.questions |-> 0]
    /\ shownAt = PollMs
    /\ leftWithNext = {}
    /\ nextOnly = TRUE
    /\ timerResult = ResultOf(<<>>)
    /\ mounted = TRUE

\* what the player leaves alone
playerOthers == <<chunkVars, simA, simB, simOut, genVars, extVars, upVars, mockVars, pickVars>>

\* the question on display has been on display until now
Displayed ==
    /\ timeOn' = [timeOn EXCEPT ![currentIndex + 1] = @ + (now - shownAt)]
    /\ shownAt' = now

\* useEffect(() => { setStartTime(now); setQuestionStart(now) }, [])
PlayerMount ==
    /\ mounted
    /\ startTime = 0
    /\ startTime' = now
    /\ questionStart' = now
    /\ UNCHANGED <<now, currentIndex, answersState, answersRef, submittedRef, finishCalls, entered,
                   timeOn, shownAt, leftWithNext, nextOnly, timerResult, mounted>>
    /\ UNCHANGED <<view, settings, quiz, submission, attemptResult, history, playerOthers>>

\* time passes
Tick ==
    /\ mounted
    /\ now < PollMs * (1 + MaxTicks)
    /\ now' = now + PollMs
    /\ UNCHANGED <<currentIndex, answersState, answersRef, startTime, questionStart, submittedRef,
                   finishCalls, entered, timeOn, shownAt, leftWithNext, nextOnly, timerResult, mounted>>
    /\ UNCHANGED <<view, settings, quiz, submission, attemptResult, history, playerOthers>>

\* updateAnswer(data), called by an input of the question on display
updateAnswer ==
    /\ mounted
    /\ startTime # 0
    /\ \E data \in Edits(currentQ, Entry(answersState, currentQ.question_id)) :
       \E next \in {Put(answersRef,
                        Merge(Entry(answersRef, currentQ.question_id), data))} :
          /\ answersRef' = next
          /\ answersState' = next
          /\ timerResult' = ResultOf(next)
          /\ entered' = [entered EXCEPT ![currentIndex + 1] = Merge(@, data)]
    /\ UNCHANGED <<now, currentIndex, startTime, questionStart, submittedRef, finishCalls,
                   timeOn, shownAt, leftWithNext, nextOnly, mounted>>
    /\ UNCHANGED <<view, settings, quiz, submission, attemptResult, history, playerOthers>>

\* the body of handleNext
HandleNextBody ==
    \E qStart \in {IF questionStart # 0 THEN questionStart ELSE now} :
    \E finalAnswers \in
        {Put(answersRef,
             [Entry(answersRef, currentQ.question_id)
                 EXCEPT !.time_spent_seconds = @ + (now - qStart)])} :
       /\ IF currentIndex < Len(quiz.questions) - 1
          THEN /\ answersState' = finalAnswers
               /\ currentIndex' = currentIndex + 1
               /\ questionStart' = now
               /\ UNCHANGED <<answersRef, finishCalls, timerResult, mounted>>
               /\ UNCHANGED <<view, submission, attemptResult, history>>
          ELSE /\ answersRef' = finalAnswers
               /\ answersState' = finalAnswers
               /\ finishCalls' = Append(finishCalls, [by |-> "next", answers |-> finalAnswers])
               /\ \E result \in {ResultOf(finalAnswers)} :
                      /\ Finished(finalAnswers, result)
                      /\ timerResult' = result
               /\ mounted' = FALSE
               /\ UNCHANGED <<currentIndex, questionStart>>
       /\ Displayed
       /\ leftWithNext' = leftWithNext \cup {currentIndex + 1}
       /\ UNCHANGED <<now, startTime, submittedRef, entered>>
       /\ UNCHANGED <<settings, quiz, playerOthers>>

\* the Next Question / Submit Quiz button, or the Enter key
handleNext ==
    /\ mounted
    /\ startTime # 0
    /\ HandleNextBody
    /\ UNCHANGED nextOnly

\* the Previous button, or the ArrowLeft key
Previous ==
    /\ mounted
    /\ startTime # 0
    /\ currentIndex > 0
    /\ currentIndex' = currentIndex - 1
    /\ Displayed
    /\ nextOnly' = FALSE
    /\ UNCHANGED <<now, answersState, answersRef, startTime, questionStart, submittedRef,
                   finishCalls, entered, leftWithNext, timerResult, mounted>>
    /\ UNCHANGED <<view, settings, quiz, submission, attemptResult, history, playerOthers>>

\* the ArrowRight key
ArrowRight ==
    /\ mounted
    /\ startTime # 0
    /\ nextOnly' = FALSE
    /\ IF currentIndex < Len(quiz.questions) - 1
       THEN /\ currentIndex' = currentIndex + 1
            /\ questionStart' = now
            /\ Displayed
            /\ UNCHANGED <<now, answersState, answersRef, startTime, submittedRef, finishCalls,
                           entered, leftWithNext, timerResult, mounted>>
            /\ UNCHANGED <<view, settings, quiz, submission, attemptResult, history,
                           playerOthers>>
       ELSE HandleNextBody

\* `check`, called by the interval, when it has something to do; its call
\* of onFinish = handleQuizFinish ends in the AttemptResult kept in timerResult.
\* The state set in a timer callback is rendered in a later task: the player
\* stays mounted until Unmount.
TimeLimitCheck ==
    /\ mounted
    /\ settings.time_limit_seconds # 0
    /\ startTime # 0
    /\ ~submittedRef
    /\ now - startTime >= limitMs(settings.time_limit_seconds)
    /\ submittedRef' = TRUE
    /\ finishCalls' = Append(finishCalls, [by |-> "timer", answers |-> answersRef])
    /\ Finished(answersRef, timerResult)
    /\ UNCHANGED <<now, currentIndex, answersState, answersRef, startTime, questionStart, entered,
                   timeOn, shownAt, leftWithNext, nextOnly, timerResult, mounted>>
    /\ UNCHANGED <<settings, quiz, playerOthers>>

\* React renders the view set by handleQuizFinish in the timer callback: the
\* player is unmounted, the cleanups of its effects clear the interval and
\* remove the key listener
Unmount ==
    /\ mounted
    /\ view = "result"
    /\ mounted' = FALSE
    /\ UNCHANGED <<now, currentIndex, answersState, answersRef, startTime, questionStart,
                   submittedRef, finishCalls, entered, timeOn, shownAt, leftWithNext, nextOnly,
                   timerResult>>
    /\ UNCHANGED <<view, settings, quiz, submission, attemptResult, history, playerOthers>>

NextPlayer ==
    \/ PlayerMount \/ Tick \/ updateAnswer \/ handleNext \/ Previous \/ ArrowRight
    \/ TimeLimitCheck \/ Unmount

SpecPlayer == InitPlayer /\ [][NextPlayer]_vars

\* the interval calls `check` every 500 ms for as long as the player is mounted
SpecPlayerFair == SpecPlayer /\ WF_vars(TimeLimitCheck)

\* C26: onFinish is called at most once for an attempt, whatever the order
\* of the time-limit poll, the Submit button and the Enter and ArrowRight
\* keys on the last question, and the history gains one AttemptResult
SubmittedOnce ==
    /\ Len(finishCalls) <= 1
    /\ Len(history) = Len(finishCalls)

\* the AttemptResult kept for `check` is the one handleQuizFinish builds
TimerResultKept == timerResult = ResultOf(answersRef)

\* C18: a submission made with the Next/Submit button, the user having
\* moved with Next only, has an entry for every question left with Next,
\* and the time_spent_seconds of the entry is the time the question has
\* been on display
TimePerQuestion ==
    \A k \in DOMAIN finishCalls :
        (finishCalls[k].by = "next" /\ nextOnly) =>
            \A i \in leftWithNext :
                \E j \in DOMAIN finishCalls[k].answers :
                    /\ finishCalls[k].answers[j].question_id = quiz.questions[i].question_id
                    /\ finishCalls[k].answers[j].time_spent_seconds = timeOn[i]

\* the time limit is set, the quiz has started and is on, and the limit is reached
TimeIsUp ==
    /\ view = "quiz"
    /\ settings.time_limit_seconds # 0
    /\ startTime # 0
    /\ now - startTime >= settings.time_limit_seconds * MsPerSecond

\* the call has what the user entered for every question
HoldsEntered(call) ==
    \A i \in DOMAIN entered :
        entered[i] # NoAnswer(quiz.questions[i].question_id) =>
            \E j \in DOMAIN call.answers :
                /\ call.answers[j].question_id = entered[i].question_id
                /\ call.answers[j].selected_choice_ids = entered[i].selected_choice_ids
                /\ call.answers[j].written_answer = entered[i].written_answer
                /\ call.answers[j].match_pairs = entered[i].match_pairs

\* C19: once the time limit is reached while the quiz is on, onFinish is
\* called with every answer entered, and the timer calls onFinish at most once
TimeLimitEnds ==
    /\ TimeIsUp ~> (finishCalls # <<>> /\ HoldsEntered(finishCalls[Len(finishCalls)]))
    /\ [](Cardinality({k \in DOMAIN finishCalls : finishCalls[k].by = "timer"}) <= 1)

\* the timer has submitted a quiz with an answer in it
TimeLimitEndsWitness ==
    /\ Len(finishCalls) = 1
    /\ finishCalls[1].by = "timer"
    /\ \E i \in DOMAIN entered : entered[i] # NoAnswer(quiz.questions[i].question_id)
    /\ HoldsEntered(finishCalls[1])

-----------------------------------------------------------------------------
(* chunkIntoSemanticChunks on two full-length sentences *)

\* "The mitochondria is the powerhouse of the cell."
SentencePowerhouse ==
    <<"T", "h", "e", " ", "m", "i", "t", "o", "c", "h", "o", "n", "d", "r", "i", "a", " ", "i",
    "s", " ", "t", "h", "e", " ", "p", "o", "w", "e", "r", "h", "o", "u", "s", "e", " ", "o",
    "f", " ", "t", "h", "e", " ", "c", "e", "l", "l", ".">>

\* "It produces ATP through respiration."
SentenceRespiration ==
    <<"I", "t", " ", "p", "r", "o", "d", "u", "c", "e", "s", " ", "A", "T", "P", " ", "t", "h",
    "r", "o", "u", "g", "h", " ", "r", "e", "s", "p", "i", "r", "a", "t", "i", "o", "n", ".">>

\* the two sentences as one text, in either order
TwoSentenceTexts ==
    { SentencePowerhouse \o <<SP>> \o SentenceRespiration,
      SentenceRespiration \o <<SP>> \o SentencePowerhouse }

\* budgets around the lengths of the sentences (36 and 47 characters)
TwoSentenceChunkChars == {30, 36, 37, 38, 46, 47, 48, 49, 50, 60, 84, 90}

TwoSentenceOverlaps == {0, 10, 40}

InitTwoSentences ==
    /\ text \in TwoSentenceTexts
    /\ chunkChars = 0
    /\ overlapChars = 0
    /\ sentences = <<>>
    /\ idx = 0
    /\ charPos = 0
    /\ chunks = <<>>
    /\ pc = "idle"
    /\ once = <<>>
    /\ twice = <<>>
    /\ GraderIdle
    /\ RestIdle

\* a caller invokes chunkIntoSemanticChunks(text, cc, oc)
TwoSentenceCall ==
    /\ pc = "idle"
    /\ \E cc \in TwoSentenceChunkChars, oc \in TwoSentenceOverlaps :
          /\ chunkChars' = cc
          /\ overlapChars' = oc
    /\ pc' = "start"
    /\ UNCHANGED <<text, sentences, idx, charPos, chunks, once, twice,
                 graderVars, restVars>>

NextTwoSentences == TwoSentenceCall \/ ChunkStart \/ ChunkStep \/ ChunkReturn

SpecTwoSentences == InitTwoSentences /\ [][NextTwoSentences]_vars

\* C21: for the two sentences with chunkChars 50 and overlapChars 10 the
\* first chunk is the first sentence alone and a second chunk reaches the
\* second sentence
PowerhouseAlone ==
    ( /\ pc = "done"
      /\ text = SentencePowerhouse \o <<SP>> \o SentenceRespiration
      /\ chunkChars = 50
      /\ overlapChars = 10 )
    => /\ Len(chunks) >= 2
       /\ chunks[1].text = SentencePowerhouse
       /\ chunks[2].endSentence = 1


\* C25: the chunks a call of chunkIntoSemanticChunks returns have pairwise
\* different ids, whatever the text, chunkChars and overlapChars
ChunkIdsUnique ==
    pc = "done" => \A i, j \in DOMAIN chunks : chunks[i].id = chunks[j].id => i = j

-----------------------------------------------------------------------------
(* pickFiltered, route.ts: the distractors taken from a pool of candidates *)

PhraseNewYork == <<"N", "e", "w", " ", "Y", "o", "r", "k">>

PhraseNewYorkCity ==
    <<"N", "e", "w", " ", "Y", "o", "r", "k", " ", "C", "i", "t", "y">>

PhraseNewJersey == <<"N", "e", "w", " ", "J", "e", "r", "s", "e", "y">>

PhraseYorkshire == <<"Y", "o", "r", "k", "s", "h", "i", "r", "e">>

PhraseOldTown == <<"O", "l", "d", " ", "T", "o", "w", "n">>

PhraseNewOldTown ==
    <<"N", "e", "w", " ", "O", "l", "d", " ", "T", "o", "w", "n">>

\* the candidates: as similar to "New York" as 0.816 (New York City),
\* 0.5 (New Jersey), 0.408 (New Old Town) and 0 (Yorkshire, Old Town)
PickPool ==
    {PhraseNewYorkCity, PhraseNewJersey, PhraseYorkshire, PhraseOldTown, PhraseNewOldTown}

\* the candidates of a pool
MaxCands == 3

\* MIN_SIM and MAX_SIM: the defaults 0.12 and 0.75, and bands a client sets
\* with min_sim and max_sim
PickBands ==
    { <<DefaultMinSim, DefaultMaxSim>>, <<DefaultMinSim, Ratio(9, 20)>>,
      <<Ratio(9, 20), DefaultMaxSim>>, <<Zero, One>> }

InitPick ==
    /\ text = <<>>
    /\ chunkChars = 0
    /\ overlapChars = 0
    /\ sentences = <<>>
    /\ idx = 0
    /\ charPos = 0
    /\ chunks = <<>>
    /\ pc = "idle"
    /\ once = <<>>
    /\ twice = <<>>
    /\ GraderIdle
    /\ GenIdle
    /\ ExtIdle
    /\ UpIdle
    /\ MockIdle
    /\ PlayerIdle
    /\ pickPc = "idle"
    /\ pickAnswer = PhraseNewYork
    /\ pickCands \in {c \in SeqsUpTo(PickPool, MaxCands) :
                         \A i, j \in DOMAIN c : c[i] = c[j] => i = j}
    /\ \E band \in PickBands :
          /\ MIN_SIM = band[1]
          /\ MAX_SIM = band[2]
    /\ picked = <<>>

\* pickFiltered(cands)
PickCall ==
    /\ pickPc = "idle"
    /\ picked' = pickFiltered(pickCands, pickAnswer, MIN_SIM, MAX_SIM)
    /\ pickPc' = "done"
    /\ UNCHANGED <<pickAnswer, pickCands, MIN_SIM, MAX_SIM>>
    /\ UNCHANGED <<chunkVars, graderVars, genVars, extVars, upVars, mockVars, playerVars>>

NextPick == PickCall

SpecPick == InitPick /\ [][NextPick]_vars

\* the similarity of a candidate to the answer lies in [MIN_SIM, MAX_SIM]
InBand(p) ==
    /\ ScoreGeq(semanticSimilarity(pickAnswer, p), MIN_SIM)
    /\ ScoreGeq(MAX_SIM, semanticSimilarity(pickAnswer, p))

\* C24: every candidate pickFiltered selects has a similarity s to the
\* answer with 0.6 * MIN_SIM <= s <= MAX_SIM, and the candidates inside
\* [MIN_SIM, MAX_SIM] stand before the others
PickedInBand ==
    pickPc = "done" =>
        /\ \A i \in DOMAIN picked :
              /\ ScoreGeq(semanticSimilarity(pickAnswer, picked[i]), TimesSixTenths(MIN_SIM))
              /\ ScoreGeq(MAX_SIM, semanticSimilarity(pickAnswer, picked[i]))
        /\ \A i, j \in DOMAIN picked : (i < j /\ InBand(picked[j])) => InBand(picked[i])

-----------------------------------------------------------------------------
(* splitIntoSentences, lib/extractors, called on a text of its own *)

\* letters, a digit, terminal punctuation and white space
SplitAlphabet == {"a", "3", ".", "?", SP}

\* characters of a splitter input
MaxSplitLen == 4

InitSplit ==
    /\ text \in SeqsUpTo(SplitAlphabet, MaxSplitLen)
    /\ pc = "idle"
    /\ chunkChars = 0
    /\ overlapChars = 0
    /\ sentences = <<>>
    /\ idx = 0
    /\ charPos = 0
    /\ chunks = <<>>
    /\ once = <<>>
    /\ twice = <<>>
    /\ GraderIdle
    /\ RestIdle

\* sentences = splitIntoSentences(text)
SplitCall ==
    /\ pc = "idle"
    /\ sentences' = splitIntoSentences(text)
    /\ pc' = "split"
    /\ UNCHANGED <<text, once, twice, chunkChars, overlapChars, idx, charPos, chunks,
                 graderVars, restVars>>

NextSplit == SplitCall

SpecSplit == InitSplit /\ [][NextSplit]_vars

\* the characters of s that are not white space, in order
NonSpace(s) == SelectSeq(s, LAMBDA c : ~IsSpace(c))

\* C30: the sentences splitIntoSentences returns are trimmed and not empty
\* and, joined with single spaces, they are the input up to white space:
\* every character of the input that is not white space belongs to a
\* sentence, in the order of the input
SentencesKeepText ==
    pc = "split" =>
        /\ \A i \in DOMAIN sentences :
              sentences[i] # <<>> /\ Trim(sentences[i]) = sentences[i]
        /\ NonSpace(Join(sentences, <<SP>>)) = NonSpace(text)

====
